---------------------------- MODULE RWLockProofs ----------------------------
(***************************************************************************)
(* Proofs about RWLock, for any number of threads, any nesting of read     *)
(* locks and any policy.  Exclusion and the count of pending writers hold  *)
(* wherever ticks fall; that no wake-up is lost assumes no tick between    *)
(* preemption_enable() and scheduler_schedule().                           *)
(***************************************************************************)
EXTENDS RWLock, SchedulerProofs, FiniteSetTheorems

PC == {"user", "rd_park", "rd_retry", "wr_park", "wr_retry"}

-----------------------------------------------------------------------------
(* Counting read locks and pending writers.                                *)

(* A finite set is counted by a natural number, 0 only if it is empty.     *)
LEMMA CountFacts ==
  /\ IsFiniteSet(ReadLocks) /\ IsFiniteSet(Pending)
  /\ Cardinality(ReadLocks) \in Nat /\ Cardinality(Pending) \in Nat
  /\ Cardinality(ReadLocks) = 0 <=> ReadLocks = {}
  /\ Cardinality(Pending) = 0 <=> Pending = {}
<1>1. IsFiniteSet(Thread \X (1 .. MaxReads))
  <2>1. IsFiniteSet(1 .. MaxReads)
    BY RWLockAssumption, FS_Interval
  <2> QED
    BY <2>1, RWLockAssumption, FS_Product
<1>2. IsFiniteSet(ReadLocks) /\ IsFiniteSet(Pending)
  <2>1. ReadLocks \in SUBSET (Thread \X (1 .. MaxReads)) /\ Pending \in SUBSET Thread
    BY DEF ReadLocks, Pending
  <2> QED
    BY <1>1, <2>1, RWLockAssumption, FS_Subset
<1> QED
  BY <1>2, FS_CardinalityType, FS_EmptySet

(* Adding a member to a finite set.                                        *)
LEMMA OneMore ==
  ASSUME NEW S, NEW x, IsFiniteSet(S), x \notin S
  PROVE  /\ Cardinality(S) \in Nat
         /\ Cardinality(S \cup {x}) = Cardinality(S) + 1
  BY FS_AddElement, FS_CardinalityType

(* Taking a member out of it.                                              *)
LEMMA OneLess ==
  ASSUME NEW S, NEW x, IsFiniteSet(S), x \in S
  PROVE  /\ Cardinality(S) \in Nat
         /\ Cardinality(S \ {x}) = Cardinality(S) - 1
  BY FS_RemoveElement, FS_CardinalityType

(* A read lock more, and a read lock less.                                 *)
LEMMA ReadLocksFacts ==
  ASSUME reads \in [Thread -> 0 .. MaxReads], NEW t \in Thread
  PROVE  /\ reads[t] < MaxReads /\ reads' = [reads EXCEPT ![t] = @ + 1]
              => Cardinality(ReadLocks') = Cardinality(ReadLocks) + 1
         /\ reads[t] > 0 /\ reads' = [reads EXCEPT ![t] = @ - 1]
              => Cardinality(ReadLocks') = Cardinality(ReadLocks) - 1
         /\ ReadLocks = {} <=> \A u \in Thread : reads[u] = 0
<1>0. MaxReads \in Nat \ {0} /\ IsFiniteSet(ReadLocks)
  BY RWLockAssumption, CountFacts
<1>1. ASSUME NEW u \in Thread, NEW i
      PROVE  /\ <<u, i>> \in ReadLocks <=> i \in 1 .. MaxReads /\ i <= reads[u]
             /\ <<u, i>> \in ReadLocks' <=> i \in 1 .. MaxReads /\ i <= reads'[u]
  BY DEF ReadLocks
<1>2. /\ \A h \in ReadLocks : \E u \in Thread, i \in 1 .. MaxReads : h = <<u, i>>
      /\ \A h \in ReadLocks' : \E u \in Thread, i \in 1 .. MaxReads : h = <<u, i>>
  BY DEF ReadLocks
<1>3. ASSUME reads[t] < MaxReads, reads' = [reads EXCEPT ![t] = @ + 1]
      PROVE  Cardinality(ReadLocks') = Cardinality(ReadLocks) + 1
  <2>1. <<t, reads[t] + 1>> \notin ReadLocks
    BY <1>0, <1>1
  <2>2. ReadLocks' = ReadLocks \cup {<<t, reads[t] + 1>>}
    <3>1. ASSUME NEW u \in Thread, NEW i \in 1 .. MaxReads
          PROVE  <<u, i>> \in ReadLocks' <=>
                   <<u, i>> \in ReadLocks \/ (u = t /\ i = reads[t] + 1)
      BY <1>0, <1>1, <1>3
    <3>2. <<t, reads[t] + 1>> \in ReadLocks'
      BY <1>0, <1>1, <1>3
    <3> QED
      BY <1>2, <3>1, <3>2
  <2> QED
    BY <1>0, <2>1, <2>2, OneMore
<1>4. ASSUME reads[t] > 0, reads' = [reads EXCEPT ![t] = @ - 1]
      PROVE  Cardinality(ReadLocks') = Cardinality(ReadLocks) - 1
  <2>1. <<t, reads[t]>> \in ReadLocks
    BY <1>0, <1>1, <1>4
  <2>2. ReadLocks' = ReadLocks \ {<<t, reads[t]>>}
    <3>1. ASSUME NEW u \in Thread, NEW i \in 1 .. MaxReads
          PROVE  <<u, i>> \in ReadLocks' <=>
                   <<u, i>> \in ReadLocks /\ ~(u = t /\ i = reads[t])
      BY <1>0, <1>1, <1>4
    <3> QED
      BY <1>2, <3>1
  <2> QED
    BY <1>0, <2>1, <2>2, OneLess
<1>5. ReadLocks = {} <=> \A u \in Thread : reads[u] = 0
  <2>1. ASSUME NEW u \in Thread, reads[u] # 0 PROVE <<u, 1>> \in ReadLocks
    BY <1>0, <1>1, <2>1
  <2>2. ASSUME NEW h \in ReadLocks PROVE \E u \in Thread : reads[u] # 0
    BY <1>0, <1>1, <1>2
  <2> QED
    BY <2>1, <2>2
<1> QED
  BY <1>3, <1>4, <1>5

(* Pending writers when t moves from one label to another.                 *)
LEMMA PendingFacts ==
  ASSUME pc \in [Thread -> PC], NEW t \in Thread, NEW l \in PC, pc' = [pc EXCEPT ![t] = l]
  PROVE  Cardinality(Pending') = Cardinality(Pending)
           + (IF l \in {"wr_park", "wr_retry"} THEN 1 ELSE 0)
           - (IF pc[t] \in {"wr_park", "wr_retry"} THEN 1 ELSE 0)
<1> DEFINE W == {"wr_park", "wr_retry"}
<1>0. IsFiniteSet(Pending) /\ Cardinality(Pending) \in Nat
  BY CountFacts
<1>1. \A u \in Thread : (u \in Pending <=> pc[u] \in W) /\ (u \in Pending' <=> pc'[u] \in W)
  BY DEF Pending
<1>2. Pending \subseteq Thread /\ Pending' \subseteq Thread
  BY DEF Pending
<1>3. pc'[t] = l /\ \A u \in Thread \ {t} : pc'[u] = pc[u]
  OBVIOUS
<1> HIDE DEF W
<1>4. CASE l \in W /\ pc[t] \in W
  <2>1. Pending' = Pending
    BY <1>1, <1>2, <1>3, <1>4
  <2> QED
    BY <1>0, <1>4, <2>1 DEF W
<1>5. CASE l \in W /\ pc[t] \notin W
  <2>1. Pending' = Pending \cup {t} /\ t \notin Pending
    BY <1>1, <1>2, <1>3, <1>5
  <2> QED
    BY <1>0, <1>5, <2>1, OneMore DEF W
<1>6. CASE l \notin W /\ pc[t] \in W
  <2>1. Pending' = Pending \ {t} /\ t \in Pending
    BY <1>1, <1>2, <1>3, <1>6
  <2> QED
    BY <1>0, <1>6, <2>1, OneLess DEF W
<1>7. CASE l \notin W /\ pc[t] \notin W
  <2>1. Pending' = Pending
    BY <1>1, <1>2, <1>3, <1>7
  <2> QED
    BY <1>0, <1>7, <2>1 DEF W
<1> QED
  BY <1>4, <1>5, <1>6, <1>7

-----------------------------------------------------------------------------
(* The steps of rwlock.c preserve LockInv.                                 *)

(* A read lock is taken while nobody writes.                               *)
LEMMA InvAcquireRead ==
  ASSUME LockInv, NEW t \in Thread, pc[t] \in {"user", "rd_retry"},
         reads[t] < MaxReads, ReadAllowed, AcquireRead(t)
  PROVE  LockInv'
<1>1. /\ readers' = readers + 1 /\ reads' = [reads EXCEPT ![t] = @ + 1]
      /\ pc' = [pc EXCEPT ![t] = "user"]
      /\ UNCHANGED <<schedVars, queueVars, writer, writer_owner, pending_writers, writes>>
  BY DEF AcquireRead, Goto
<1>2. /\ TypeOK /\ Exclusion /\ PendingExact /\ writer = 0
      /\ pc \in [Thread -> PC] /\ reads \in [Thread -> 0 .. MaxReads] /\ MaxReads \in Nat
  BY RWLockAssumption DEF LockInv, ReadAllowed, TypeOK, PC
<1>3. TypeOK'
  BY <1>1, <1>2 DEF TypeOK, SchedTypeOK, schedVars, queueVars
<1>4. Exclusion'
  <2>1. readers' = Cardinality(ReadLocks')
    BY <1>1, <1>2, ReadLocksFacts, CountFacts DEF Exclusion
  <2>2. \A u \in Thread : ~writes[u]
    BY <1>2 DEF Exclusion
  <2> QED
    BY <1>1, <1>2, <2>1, <2>2 DEF Exclusion
<1>5. PendingExact'
  <2>1. Cardinality(Pending') = Cardinality(Pending) + 0 - 0
    BY <1>1, <1>2, PendingFacts DEF PC
  <2> QED
    BY <1>1, <1>2, <2>1, CountFacts DEF PendingExact
<1> QED
  BY <1>1, <1>2, <1>3, <1>4, <1>5 DEF LockInv

(* A thread that queues itself holds what it held; a new writer is counted.*)
LEMMA InvEnqueue ==
  ASSUME LockInv, NEW t \in Thread,
         \/ pc[t] \in {"user", "rd_retry"} /\ reads[t] < MaxReads /\ EnqueueReader(t)
         \/ pc[t] = "user" /\ EnqueueWriter(t, 0)
         \/ pc[t] = "wr_retry" /\ EnqueueWriter(t, 1)
  PROVE  LockInv'
<1>1. /\ TypeOK /\ Exclusion /\ PendingExact /\ pc \in [Thread -> PC]
      /\ reads \in [Thread -> 0 .. MaxReads] /\ MaxReads \in Nat
  BY RWLockAssumption DEF LockInv, TypeOK, PC
<1>2. PICK q \in {"rd_park", "wr_park"} :
        /\ pc' = [pc EXCEPT ![t] = q]
        /\ q = "rd_park" => /\ pc[t] \in {"user", "rd_retry"} /\ reads[t] < MaxReads
                            /\ pending_writers' = pending_writers
        /\ q = "wr_park" => \/ pc[t] = "user" /\ pending_writers' = pending_writers + 1 - 0
                            \/ pc[t] = "wr_retry" /\ pending_writers' = pending_writers + 1 - 1
  BY DEF EnqueueReader, EnqueueWriter, Goto, lockVars
<1>3. /\ state' = [state EXCEPT ![t] = "BLOCKED"]
      /\ UNCHANGED <<current, ready, readers, writer, writer_owner, initialized, reads, writes>>
      /\ read_waiters' \in {read_waiters, wait_queue_add(read_waiters, t)}
      /\ write_waiters' \in {write_waiters, wait_queue_add(write_waiters, t)}
  BY DEF EnqueueReader, EnqueueWriter, lockVars
<1>4. read_waiters' \in Seq(Thread) /\ write_waiters' \in Seq(Thread)
  BY <1>1, <1>3, AddFacts DEF TypeOK
<1>5. Cardinality(Pending') = pending_writers' /\ pending_writers' \in Nat
  <2>1. Cardinality(Pending') = Cardinality(Pending)
           + (IF q \in {"wr_park", "wr_retry"} THEN 1 ELSE 0)
           - (IF pc[t] \in {"wr_park", "wr_retry"} THEN 1 ELSE 0)
    BY <1>1, <1>2, PendingFacts DEF PC
  <2> QED
    BY <1>1, <1>2, <2>1, CountFacts DEF PendingExact
<1>6. TypeOK'
  BY <1>1, <1>2, <1>3, <1>4, <1>5 DEF TypeOK, SchedTypeOK, ThreadState, PC
<1>7. Exclusion'
  BY <1>1, <1>3 DEF Exclusion, ReadLocks
<1> QED
  BY <1>1, <1>2, <1>3, <1>5, <1>6, <1>7 DEF LockInv, PendingExact

(* The write lock is taken while nobody holds anything.                    *)
LEMMA InvAcquireWrite ==
  ASSUME LockInv, NEW t \in Thread, WriteAllowed,
         \/ pc[t] = "user" /\ AcquireWrite(t, 0)
         \/ pc[t] = "wr_retry" /\ AcquireWrite(t, 1)
  PROVE  LockInv'
<1>1. /\ TypeOK /\ Exclusion /\ PendingExact /\ pc \in [Thread -> PC]
      /\ reads \in [Thread -> 0 .. MaxReads] /\ readers = 0 /\ writer = 0
  BY DEF LockInv, TypeOK, PC, WriteAllowed
<1>2. /\ writer' = 1 /\ writer_owner' = t /\ writes' = [writes EXCEPT ![t] = TRUE]
      /\ pc' = [pc EXCEPT ![t] = "user"]
      /\ \/ pc[t] = "user" /\ pending_writers' = pending_writers - 0
         \/ pc[t] = "wr_retry" /\ pending_writers' = pending_writers - 1
      /\ UNCHANGED <<schedVars, queueVars, readers, reads>>
  BY DEF AcquireWrite, Goto
<1>3. \A u \in Thread : reads[u] = 0 /\ ~writes[u]
  BY <1>1, ReadLocksFacts, CountFacts DEF Exclusion
<1>4. Cardinality(Pending') = pending_writers' /\ pending_writers' \in Nat
  <2>1. Cardinality(Pending') = Cardinality(Pending) + 0
           - (IF pc[t] \in {"wr_park", "wr_retry"} THEN 1 ELSE 0)
    BY <1>1, <1>2, PendingFacts DEF PC
  <2>2. pc[t] = "wr_retry" => Cardinality(Pending) # 0
    BY CountFacts DEF Pending
  <2> QED
    BY <1>1, <1>2, <2>1, <2>2, CountFacts DEF PendingExact
<1>5. TypeOK'
  BY <1>1, <1>2, <1>4 DEF TypeOK, SchedTypeOK, schedVars, queueVars
<1>6. Exclusion'
  <2>1. readers' = Cardinality(ReadLocks')
    BY <1>1, <1>2 DEF Exclusion, ReadLocks
  <2>2. writes'[t] /\ \A u \in Thread : writes'[u] => u = t
    BY <1>1, <1>2, <1>3 DEF TypeOK
  <2> QED
    BY <1>1, <1>2, <1>3, <2>1, <2>2 DEF Exclusion
<1> QED
  BY <1>1, <1>2, <1>4, <1>5, <1>6 DEF LockInv, PendingExact

(* An unlock gives back what the caller holds.                             *)
LEMMA InvUnlock ==
  ASSUME LockInv, NEW t \in Thread, Unlock(t)
  PROVE  LockInv'
<1>1. /\ TypeOK /\ Exclusion /\ PendingExact /\ pc[t] = "user"
      /\ reads \in [Thread -> 0 .. MaxReads] /\ MaxReads \in Nat
      /\ reads[t] > 0 \/ writes[t]
      /\ UNCHANGED <<initialized, pc, pending_writers>>
  BY RWLockAssumption DEF LockInv, TypeOK, Unlock, At, UnlockWriter, UnlockReader
<1>2. SchedTypeOK' /\ read_waiters' \in Seq(Thread) /\ write_waiters' \in Seq(Thread)
  <2>1. /\ read_waiters \in Seq(Thread) /\ write_waiters \in Seq(Thread) /\ SchedTypeOK
        /\ <<>> \in Seq(Thread)
    BY <1>1 DEF TypeOK
  <2>2. CASE WakeWriter
    <3>1. AfterWake(write_waiters) \in Seq(Thread) /\ Woken(write_waiters) \subseteq Thread
      BY <2>1, WakeFacts, EmptyFacts
    <3> QED
      BY <2>1, <2>2, <3>1 DEF WakeWriter, scheduler_unblock, SchedTypeOK, ThreadState
  <2>3. CASE WakeReaders
    <3>1. Members(read_waiters) \subseteq Thread
      BY <2>1, EmptyFacts
    <3> QED
      BY <2>1, <2>3, <3>1 DEF WakeReaders, scheduler_unblock, SchedTypeOK, ThreadState
  <2>4. CASE WakeNobody
    BY <2>1, <2>4 DEF WakeNobody, SchedTypeOK, schedVars
  <2> QED
    BY <2>2, <2>3, <2>4 DEF Unlock, UnlockWriter, UnlockReader
<1>3. CASE writer # 0 /\ writer_owner = t /\ UnlockWriter(t)
  <2>1. /\ writer' = 0 /\ writer_owner' = None /\ writes' = [writes EXCEPT ![t] = FALSE]
        /\ UNCHANGED <<readers, reads>>
    BY <1>3 DEF UnlockWriter
  <2>2. TypeOK'
    BY <1>1, <1>2, <2>1 DEF TypeOK
  <2>3. \A u \in Thread : ~writes'[u]
    BY <1>1, <1>3, <2>1 DEF Exclusion, TypeOK
  <2>4. readers' = Cardinality(ReadLocks')
    BY <1>1, <2>1 DEF Exclusion, ReadLocks
  <2>5. Exclusion'
    BY <2>1, <2>3, <2>4, RWLockAssumption DEF Exclusion
  <2> QED
    BY <1>1, <2>1, <2>2, <2>5 DEF LockInv, PendingExact, Pending
<1>4. CASE writer = 0 /\ readers > 0 /\ UnlockReader(t)
  <2>1. /\ readers' = readers - 1 /\ reads' = [reads EXCEPT ![t] = @ - 1]
        /\ UNCHANGED <<writer, writer_owner, writes>>
    BY <1>4 DEF UnlockReader
  <2>2. reads[t] > 0 /\ \A u \in Thread : ~writes[u]
    BY <1>1, <1>4 DEF Exclusion
  <2>3. TypeOK'
    BY <1>1, <1>2, <1>4, <2>1, <2>2 DEF TypeOK
  <2>4. readers' = Cardinality(ReadLocks')
    BY <1>1, <2>1, <2>2, ReadLocksFacts DEF Exclusion
  <2>5. Exclusion'
    BY <1>1, <2>1, <2>2, <2>4 DEF Exclusion
  <2>6. \A u \in Thread : pc'[u] \in {"rd_park", "rd_retry"} => reads'[u] < MaxReads
    BY <1>1, <2>1 DEF LockInv
  <2> QED
    BY <1>1, <2>3, <2>5, <2>6 DEF LockInv, PendingExact, Pending
<1> QED
  BY <1>3, <1>4 DEF Unlock

(* A thread that parks stays in the call it is in.                         *)
LEMMA InvPark ==
  ASSUME LockInv, NEW t \in Thread, Park(t)
  PROVE  LockInv'
<1>1. /\ TypeOK /\ Exclusion /\ PendingExact /\ pc \in [Thread -> PC]
      /\ UNCHANGED <<lockVars, queueVars, reads, writes>>
  BY DEF LockInv, TypeOK, PC, Park
<1>2. PICK l \in {"rd_retry", "wr_retry"} :
        /\ pc' = [pc EXCEPT ![t] = l]
        /\ l = "rd_retry" => pc[t] = "rd_park"
        /\ l = "wr_retry" => pc[t] = "wr_park"
  BY DEF Park, At, Goto
<1>3. SchedTypeOK'
  BY <1>1, ScheduleFacts DEF Park, TypeOK, SchedTypeOK
<1>4. TypeOK'
  BY <1>1, <1>2, <1>3 DEF TypeOK, lockVars, queueVars
<1>5. Exclusion'
  BY <1>1 DEF Exclusion, ReadLocks, lockVars
<1>6. PendingExact'
  <2>1. \A u \in Thread : u \in Pending' <=> u \in Pending
    BY <1>1, <1>2 DEF Pending
  <2>2. Pending' = Pending
    BY <2>1 DEF Pending
  <2> QED
    BY <1>1, <2>2 DEF PendingExact, lockVars
<1> QED
  BY <1>1, <1>2, <1>4, <1>5, <1>6 DEF LockInv

(* What holds of the lock and of its callers holds after every step.       *)
THEOREM LockInvariant == Spec => []LockInv
<1>1. Init => LockInv
  <2> SUFFICES ASSUME Init PROVE LockInv
    OBVIOUS
  <2>1. TypeOK
    BY RWLockAssumption DEF Init, TypeOK, SchedInit, SchedTypeOK, ThreadState
  <2>2. readers = Cardinality(ReadLocks)
    <3>1. \A t \in Thread : reads[t] = 0
      BY DEF Init
    <3>2. ReadLocks = {}
      BY <3>1, RWLockAssumption DEF ReadLocks
    <3> QED
      BY <3>2, FS_EmptySet DEF Init
  <2>3. PendingExact
    <3>1. Pending = {}
      BY DEF Init, Pending
    <3> QED
      BY <3>1, CountFacts DEF Init, PendingExact
  <2> QED
    BY <2>1, <2>2, <2>3, RWLockAssumption DEF Init, LockInv, Exclusion
<1>2. LockInv /\ [Next]_vars => LockInv'
  <2> SUFFICES ASSUME LockInv, [Next]_vars PROVE LockInv'
    OBVIOUS
  <2>1. ASSUME NEW t \in Thread, ReadLock(t) \/ TryReadLock(t) PROVE LockInv'
    <3>1. /\ pc[t] \in {"user", "rd_retry"} /\ reads[t] < MaxReads
          /\ (ReadAllowed /\ AcquireRead(t)) \/ EnqueueReader(t)
      BY <2>1 DEF ReadLock, TryReadLock, MayRead, At, LockInv
    <3> QED
      BY <3>1, InvAcquireRead, InvEnqueue
  <2>2. ASSUME NEW t \in Thread, WriteLock(t) \/ WriteRetry(t) \/ TryWriteLock(t)
        PROVE  LockInv'
    <3>1. \/ pc[t] = "user" /\ WriteAllowed /\ AcquireWrite(t, 0)
          \/ pc[t] = "user" /\ EnqueueWriter(t, 0)
          \/ pc[t] = "wr_retry" /\ WriteAllowed /\ AcquireWrite(t, 1)
          \/ pc[t] = "wr_retry" /\ EnqueueWriter(t, 1)
      BY <2>2 DEF WriteLock, WriteRetry, TryWriteLock, MayWrite, At
    <3> QED
      BY <3>1, InvAcquireWrite, InvEnqueue
  <2>3. ASSUME NEW t \in Thread, Unlock(t) PROVE LockInv'
    BY <2>3, InvUnlock
  <2>4. ASSUME NEW t \in Thread, Park(t) PROVE LockInv'
    BY <2>4, InvPark
  <2>5. ASSUME UNCHANGED <<lockVars, read_waiters, write_waiters, pc, reads, writes>>,
               SchedTypeOK', initialized' \in BOOLEAN
        PROVE  LockInv'
    BY <2>5 DEF LockInv, TypeOK, Exclusion, ReadLocks, PendingExact, Pending, lockVars
  <2>6. ASSUME NEW t \in Thread, Destroy(t) PROVE LockInv'
    <3>1. SchedTypeOK' /\ initialized' \in BOOLEAN
      BY <2>6 DEF Destroy, LockInv, TypeOK, SchedTypeOK, schedVars
    <3> QED
      BY <2>5, <2>6, <3>1 DEF Destroy
  <2>7. ASSUME NEW t \in Thread, Yield(t) \/ Tick(t) PROVE LockInv'
    <3>1. SchedTypeOK'
      BY <2>7, SwitchType DEF Yield, Tick, LockInv, TypeOK
    <3>2. initialized' \in BOOLEAN
      BY <2>7 DEF Yield, Tick, LockInv, TypeOK, queueVars
    <3> QED
      BY <2>5, <2>7, <3>1, <3>2 DEF Yield, Tick, queueVars
  <2>8. ASSUME NEW t \in Thread, RWLockInit(t) PROVE LockInv'
    <3>1. initialized' \in BOOLEAN
      BY <2>8, Zenon DEF RWLockInit
    <3>2. /\ readers' = 0 /\ writer' = 0 /\ writer_owner' = None /\ pending_writers' = 0
          /\ read_waiters' = <<>> /\ write_waiters' = <<>>
          /\ UNCHANGED <<schedVars, pc, reads, writes>>
          /\ \A u \in Thread : pc[u] = "user" /\ reads[u] = 0 /\ ~writes[u]
      BY <2>8 DEF RWLockInit
    <3>3. TypeOK'
      BY <3>1, <3>2 DEF LockInv, TypeOK, SchedTypeOK, schedVars
    <3>4. ReadLocks' = {} /\ Pending' = {}
      <4>1. ReadLocks = {} /\ Pending = {}
        BY <3>2, ReadLocksFacts DEF LockInv, TypeOK, Pending
      <4>2. ReadLocks' = ReadLocks /\ Pending' = Pending
        BY <3>2 DEF ReadLocks, Pending
      <4> QED
        BY <4>1, <4>2
    <3>5. Cardinality(ReadLocks') = 0 /\ Cardinality(Pending') = 0
      BY <3>4, FS_EmptySet
    <3>6. Exclusion'
      BY <3>2, <3>5, RWLockAssumption DEF Exclusion
    <3> QED
      BY <3>2, <3>3, <3>5, <3>6 DEF LockInv, PendingExact
  <2>9. CASE UNCHANGED vars
    BY <2>5, <2>9 DEF vars, LockInv, TypeOK, SchedTypeOK, schedVars, queueVars
  <2> QED
    BY <2>1, <2>2, <2>3, <2>4, <2>6, <2>7, <2>8, <2>9 DEF Next, Step
<1> QED
  BY <1>1, <1>2, PTL DEF Spec

(* Many readers or one writer, whatever wakes whom and however threads are *)
(* preempted; and the fields of the lock say who holds it.                 *)
THEOREM ReadersWriterExclusion == Spec => []Exclusion
<1>1. LockInv => Exclusion
  BY DEF LockInv
<1> QED
  BY <1>1, LockInvariant, PTL

(* pending_writers counts the threads inside uthread_rwlock_wrlock.        *)
THEOREM PendingIsExact == Spec => []PendingExact
<1>1. LockInv => PendingExact
  BY DEF LockInv
<1> QED
  BY <1>1, LockInvariant, PTL
-----------------------------------------------------------------------------
(* Wake-ups.                                                               *)

(* A thread that takes the lock, for reading or writing, was not queued.   *)
LEMMA WakeAcquire ==
  ASSUME LockInv, WaitQueuesOK, NoLostWakeup, NEW t \in Thread, current = t,
         pc[t] \in {"user", "rd_retry", "wr_retry"},
         \/ ReadAllowed /\ AcquireRead(t)
         \/ \E w \in {0, 1} : WriteAllowed /\ AcquireWrite(t, w)
  PROVE  WaitQueuesOK' /\ NoLostWakeup'
<1>1. /\ UNCHANGED <<current, state, ready, read_waiters, write_waiters>>
      /\ pc' = [pc EXCEPT ![t] = "user"] /\ pc \in [Thread -> PC]
      /\ state \in [Thread -> ThreadState]
  BY DEF AcquireRead, AcquireWrite, Goto, schedVars, queueVars, LockInv, TypeOK, SchedTypeOK, PC
<1>2. /\ state[t] # "BLOCKED" /\ t \notin Members(read_waiters) /\ t \notin Members(write_waiters)
      /\ Members(read_waiters) \subseteq Thread /\ Members(write_waiters) \subseteq Thread
  BY EmptyFacts DEF WaitQueuesOK, LockInv, TypeOK
<1>3. WaitQueuesOK'
  BY <1>1, <1>2 DEF WaitQueuesOK, RunStructureOK
<1>4. CASE ReadAllowed /\ AcquireRead(t)
  BY <1>1, <1>3, <1>4 DEF NoLostWakeup, ReadAllowed, WriteAllowed, AcquireRead, LockInv, TypeOK
<1>5. CASE \E w \in {0, 1} : WriteAllowed /\ AcquireWrite(t, w)
  <2>1. writer' = 1
    BY <1>5 DEF AcquireWrite
  <2> QED
    BY <1>3, <2>1 DEF NoLostWakeup, WriteAllowed
<1> QED
  BY <1>3, <1>4, <1>5

(* A thread queues itself only when it cannot have the lock.               *)
LEMMA WakeEnqueue ==
  ASSUME LockInv, WaitQueuesOK, NoLostWakeup, NEW t \in Thread, current = t,
         \/ pc[t] \in {"user", "rd_retry"} /\ ~ReadAllowed /\ EnqueueReader(t)
         \/ pc[t] = "user" /\ ~WriteAllowed /\ EnqueueWriter(t, 0)
         \/ pc[t] = "wr_retry" /\ ~WriteAllowed /\ EnqueueWriter(t, 1)
  PROVE  WaitQueuesOK' /\ NoLostWakeup'
<1>1. /\ UNCHANGED <<current, ready, readers, writer>>
      /\ state' = [state EXCEPT ![t] = "BLOCKED"]
      /\ state \in [Thread -> ThreadState] /\ pc \in [Thread -> PC]
      /\ read_waiters \in Seq(Thread) /\ write_waiters \in Seq(Thread)
      /\ pending_writers \in Nat /\ readers \in Nat /\ writer \in {0, 1}
  BY DEF EnqueueReader, EnqueueWriter, LockInv, TypeOK, SchedTypeOK, PC, lockVars
<1>2. /\ t \notin Members(read_waiters) /\ t \notin Members(write_waiters) /\ t \notin ready
      /\ Distinct(read_waiters) /\ Distinct(write_waiters)
      /\ Members(read_waiters) \subseteq Thread /\ Members(write_waiters) \subseteq Thread
      /\ ready \subseteq Thread
  BY <1>1, EmptyFacts DEF WaitQueuesOK, RunStructureOK, LockInv, TypeOK, SchedTypeOK
<1>3. CASE pc[t] \in {"user", "rd_retry"} /\ ~ReadAllowed /\ EnqueueReader(t)
  <2>1. /\ pc' = [pc EXCEPT ![t] = "rd_park"]
        /\ UNCHANGED <<write_waiters, pending_writers>>
    BY <1>3 DEF EnqueueReader, Goto, lockVars
  <2>2. Distinct(read_waiters') /\ Members(read_waiters') \subseteq Members(read_waiters) \cup {t}
    BY <1>1, <1>2, <1>3, AddFacts DEF EnqueueReader
  <2>3. WaitQueuesOK'
    BY <1>1, <1>2, <2>1, <2>2 DEF WaitQueuesOK, RunStructureOK
  <2>4. NoLostWakeup'
    BY <1>1, <1>3, <2>1 DEF NoLostWakeup, WriteAllowed, ReadAllowed, Awake
  <2> QED
    BY <2>3, <2>4
<1>4. CASE ~WriteAllowed /\ (\/ pc[t] = "user" /\ EnqueueWriter(t, 0)
                             \/ pc[t] = "wr_retry" /\ EnqueueWriter(t, 1))
  <2>1. /\ pc' = [pc EXCEPT ![t] = "wr_park"]
        /\ UNCHANGED read_waiters
        /\ pending_writers' \in {pending_writers, pending_writers + 1}
    BY <1>1, <1>4 DEF EnqueueWriter, Goto
  <2>2. Distinct(write_waiters') /\ Members(write_waiters') \subseteq Members(write_waiters) \cup {t}
    BY <1>1, <1>2, <1>4, AddFacts DEF EnqueueWriter
  <2>3. WaitQueuesOK'
    BY <1>1, <1>2, <2>1, <2>2 DEF WaitQueuesOK, RunStructureOK
  <2>4. NoLostWakeup'
    BY <1>1, <1>4, <2>1 DEF NoLostWakeup, WriteAllowed
  <2> QED
    BY <2>3, <2>4
<1> QED
  BY <1>3, <1>4

(* The blocked thread leaves the CPU.                                      *)
LEMMA WakePark ==
  ASSUME LockInv, WaitQueuesOK, NoLostWakeup, NEW t \in Thread, Park(t)
  PROVE  WaitQueuesOK' /\ NoLostWakeup'
<1>1. PICK l \in {"rd_retry", "wr_retry"} :
        /\ pc' = [pc EXCEPT ![t] = l]
        /\ l = "rd_retry" => pc[t] = "rd_park"
        /\ l = "wr_retry" => pc[t] = "wr_park"
  BY DEF Park, At, Goto
<1>2. /\ current = t /\ pc[t] \in {"rd_park", "wr_park"} /\ state[t] = "BLOCKED"
      /\ pc \in [Thread -> PC]
      /\ scheduler_schedule(state, ready) /\ SchedTypeOK /\ RunStructureOK
      /\ UNCHANGED <<read_waiters, write_waiters, readers, writer, pending_writers>>
  BY DEF Park, At, PC, lockVars, queueVars, WaitQueuesOK, LockInv, TypeOK
<1>3. /\ SchedTypeOK' /\ RunStructureOK' /\ current' # t
      /\ \A u \in Thread : state'[u] = "BLOCKED" <=> state[u] = "BLOCKED"
      /\ \A u \in Thread : u \in ready' \cup {current'} <=> u \in ready
  BY <1>2, ParkFacts
<1>4. /\ Members(read_waiters) \subseteq Thread /\ Members(write_waiters) \subseteq Thread
      /\ \A u \in ready : u \in Thread /\ state[u] # "BLOCKED"
  BY EmptyFacts DEF LockInv, TypeOK, SchedTypeOK, WaitQueuesOK, RunStructureOK
<1>5. \A u \in Thread : pc'[u] \notin {"rd_park", "wr_park"}
  BY <1>1, <1>2 DEF WaitQueuesOK
<1>6. WaitQueuesOK'
  BY <1>1, <1>2, <1>3, <1>4, <1>5 DEF WaitQueuesOK
<1>7. \A u \in Thread : pc[u] = "wr_retry" /\ Awake(u) => pc'[u] = "wr_retry" /\ Awake(u)'
  BY <1>1, <1>2, <1>3 DEF Awake
<1> QED
  BY <1>2, <1>6, <1>7 DEF NoLostWakeup, WriteAllowed

(* WakeWriter makes the writer at the head of the queue run.               *)
LEMMA WakeWriterFacts ==
  ASSUME LockInv, WaitQueuesOK, NEW t \in Thread, current = t, pc[t] = "user",
         WakeWriter, UNCHANGED pc
  PROVE  /\ WaitQueuesOK'
         /\ write_waiters' # <<>> => \E u \in Thread : pc'[u] = "wr_retry" /\ Awake(u)'
<1> DEFINE W == Woken(write_waiters)
<1>1. /\ scheduler_unblock(W) /\ write_waiters' = AfterWake(write_waiters)
      /\ UNCHANGED <<pc, read_waiters>>
      /\ SchedTypeOK /\ RunStructureOK /\ pc \in [Thread -> PC]
  BY DEF WakeWriter, LockInv, TypeOK, WaitQueuesOK, PC
<1>2. /\ W \subseteq Members(write_waiters) /\ Members(write_waiters) \subseteq Thread
      /\ Members(read_waiters) \subseteq Thread
      /\ write_waiters # <<>> => W # {}
      /\ Members(write_waiters') \subseteq Members(write_waiters)
      /\ Distinct(write_waiters') /\ Members(write_waiters') \cap W = {}
  BY <1>1, WakeFacts, EmptyFacts DEF LockInv, TypeOK, WaitQueuesOK
<1> HIDE DEF W
<1>3. /\ \A u \in Members(write_waiters) : u # current /\ pc[u] = "wr_retry"
      /\ \A u \in Members(read_waiters) : u \notin W
  BY <1>1, <1>2 DEF WaitQueuesOK
<1>4. /\ RunStructureOK' /\ current' = current /\ ready' = ready \cup W
      /\ \A u \in Thread : state'[u] = "BLOCKED" <=> state[u] = "BLOCKED" /\ u \notin W
  <2>1. W \in SUBSET Thread /\ current \notin W
    BY <1>2, <1>3
  <2> QED
    BY <1>1, <2>1, UnblockFacts
<1>5. WaitQueuesOK'
  BY <1>1, <1>2, <1>3, <1>4 DEF WaitQueuesOK
<1>6. ASSUME write_waiters' # <<>>
      PROVE  \E u \in Thread : pc'[u] = "wr_retry" /\ Awake(u)'
  <2>1. PICK u : u \in W
    BY <1>1, <1>2, <1>6 DEF AfterWake
  <2> QED
    BY <1>1, <1>2, <1>3, <1>4, <2>1 DEF Awake
<1> QED
  BY <1>5, <1>6

(* WakeReaders empties the queue of readers.                               *)
LEMMA WakeReadersFacts ==
  ASSUME LockInv, WaitQueuesOK, NEW t \in Thread, current = t, pc[t] = "user",
         WakeReaders, UNCHANGED pc
  PROVE  WaitQueuesOK' /\ read_waiters' = <<>> /\ write_waiters' = write_waiters
<1> DEFINE W == Members(read_waiters)
<1>1. /\ scheduler_unblock(W) /\ read_waiters' = <<>>
      /\ UNCHANGED <<pc, write_waiters>>
      /\ SchedTypeOK /\ RunStructureOK /\ pc \in [Thread -> PC]
      /\ W \subseteq Thread /\ Members(write_waiters) \subseteq Thread
  BY EmptyFacts DEF WakeReaders, LockInv, TypeOK, WaitQueuesOK, PC
<1>2. /\ current \notin W
      /\ \A u \in Members(write_waiters) : u \notin W
  BY <1>1 DEF WaitQueuesOK
<1>3. Members(read_waiters') = {} /\ Distinct(read_waiters')
  BY <1>1, EmptyFacts, <<>> \in Seq(Thread)
<1> HIDE DEF W
<1>4. /\ RunStructureOK' /\ current' = current /\ ready' = ready \cup W
      /\ \A u \in Thread : state'[u] = "BLOCKED" <=> state[u] = "BLOCKED" /\ u \notin W
  BY <1>1, <1>2, UnblockFacts
<1> QED
  BY <1>1, <1>2, <1>3, <1>4 DEF WaitQueuesOK

(* A release that frees the lock wakes a writer if one sleeps, and the     *)
(* readers otherwise.                                                      *)
LEMMA WakeUnlock ==
  ASSUME LockInv, WaitQueuesOK, NoLostWakeup, NEW t \in Thread, Unlock(t)
  PROVE  WaitQueuesOK' /\ NoLostWakeup'
<1>1. /\ current = t /\ pc[t] = "user" /\ UNCHANGED <<pc, pending_writers>>
      /\ \/ writer # 0 /\ UnlockWriter(t)
         \/ writer = 0 /\ UnlockReader(t)
      /\ readers \in Nat /\ pending_writers \in Nat
  BY DEF Unlock, At, UnlockWriter, UnlockReader, LockInv, TypeOK
<1>2. ASSUME write_waiters # <<>> PROVE pending_writers > 0
  <2>1. PICK u \in Thread : u \in Members(write_waiters)
    BY <1>2, EmptyFacts DEF LockInv, TypeOK
  <2>2. u \in Pending
    BY <2>1 DEF Pending, WaitQueuesOK
  <2> QED
    BY <1>1, <2>2, CountFacts DEF LockInv, PendingExact
<1>3. CASE writer # 0 /\ UnlockWriter(t) /\ write_waiters # <<>>
  <2>1. WakeWriter /\ UNCHANGED read_waiters
    BY <1>3 DEF UnlockWriter, WakeWriter
  <2> QED
    BY <1>1, <1>2, <1>3, <2>1, WakeWriterFacts DEF NoLostWakeup
<1>4. CASE writer # 0 /\ UnlockWriter(t) /\ write_waiters = <<>>
  <2>1. WakeReaders
    BY <1>4 DEF UnlockWriter
  <2> QED
    BY <1>1, <1>4, <2>1, WakeReadersFacts DEF NoLostWakeup
<1>5. CASE writer = 0 /\ UnlockReader(t) /\ readers = 1
  <2>1. WakeWriter /\ UNCHANGED <<read_waiters, writer>>
    BY <1>5 DEF UnlockReader, WakeWriter
  <2> QED
    BY <1>1, <1>5, <2>1, WakeWriterFacts DEF NoLostWakeup
<1>6. CASE writer = 0 /\ UnlockReader(t) /\ readers # 1
  <2>1. WakeNobody /\ UNCHANGED writer /\ readers' = readers - 1
    BY <1>6 DEF UnlockReader
  <2>2. readers' # 0
    BY <1>1, <1>6, <2>1
  <2>3. WaitQueuesOK'
    BY <1>1, <2>1 DEF WakeNobody, schedVars, WaitQueuesOK, RunStructureOK
  <2> QED
    BY <1>1, <1>6, <2>1, <2>2, <2>3 DEF NoLostWakeup, WakeNobody, WriteAllowed
<1> QED
  BY <1>1, <1>3, <1>4, <1>5, <1>6

(* A yield or a tick puts nobody to sleep and keeps woken writers woken.   *)
LEMMA WakeSwitch ==
  ASSUME ParkTicks = FALSE, LockInv, WaitQueuesOK, NoLostWakeup, NEW t \in Thread,
         Yield(t) \/ Tick(t)
  PROVE  WaitQueuesOK' /\ NoLostWakeup'
<1>1. /\ current = t /\ pc[t] \notin {"rd_park", "wr_park"}
      /\ uthread_yield(t) \/ scheduler_tick(t)
      /\ pc[t] # "user" => scheduler_tick(t)
      /\ UNCHANGED <<pc, read_waiters, write_waiters, readers, writer, pending_writers>>
  BY DEF Yield, Tick, At, lockVars, queueVars, scheduler_tick
<1>2. SchedTypeOK /\ RunStructureOK /\ state[t] # "BLOCKED"
  BY <1>1 DEF LockInv, TypeOK, WaitQueuesOK
<1>3. /\ RunStructureOK'
      /\ \A u \in Thread : state'[u] = "BLOCKED" <=> state[u] = "BLOCKED"
      /\ \A u \in Thread : u \in ready' \cup {current'} => u \in ready \cup {current}
      /\ \A u \in ready : u \in ready' \cup {current'}
      /\ scheduler_tick(t) => t \in ready' \cup {current'}
  BY <1>1, <1>2, SwitchFacts
<1>4. /\ Members(read_waiters) \subseteq Thread /\ Members(write_waiters) \subseteq Thread
      /\ \A u \in Thread : pc[u] \notin {"rd_park", "wr_park"}
      /\ \A u \in ready \cup {current} : u \in Thread => state[u] # "BLOCKED"
  BY <1>1, <1>2, EmptyFacts DEF LockInv, TypeOK, SchedTypeOK, WaitQueuesOK, RunStructureOK
<1>5. WaitQueuesOK'
  BY <1>1, <1>3, <1>4 DEF WaitQueuesOK
<1>6. \A u \in Thread : pc[u] = "wr_retry" /\ Awake(u) => pc'[u] = "wr_retry" /\ Awake(u)'
  BY <1>1, <1>3 DEF Awake
<1> QED
  BY <1>1, <1>5, <1>6 DEF NoLostWakeup, WriteAllowed

(* Next to a free lock a sleeping writer has a woken writer ahead of it,   *)
(* and a sleeping reader has a writer that will wake it.                   *)
THEOREM NoWakeupIsLost ==
  ASSUME ParkTicks = FALSE
  PROVE  Spec => []NoLostWakeup
<1>1. Init => WaitQueuesOK /\ NoLostWakeup
  <2> SUFFICES ASSUME Init PROVE WaitQueuesOK /\ NoLostWakeup
    OBVIOUS
  <2>1. /\ read_waiters = <<>> /\ write_waiters = <<>>
        /\ Members(<<>>) = {} /\ Distinct(<<>>)
    BY EmptyFacts, <<>> \in Seq(Thread) DEF Init
  <2> QED
    BY <2>1 DEF Init, SchedInit, WaitQueuesOK, RunStructureOK, NoLostWakeup
<1>2. LockInv /\ WaitQueuesOK /\ NoLostWakeup /\ [Next]_vars => WaitQueuesOK' /\ NoLostWakeup'
  <2> SUFFICES ASSUME LockInv, WaitQueuesOK, NoLostWakeup, [Next]_vars
               PROVE  WaitQueuesOK' /\ NoLostWakeup'
    OBVIOUS
  <2>1. ASSUME NEW t \in Thread, ReadLock(t) \/ TryReadLock(t)
        PROVE  WaitQueuesOK' /\ NoLostWakeup'
    <3>1. /\ current = t /\ pc[t] \in {"user", "rd_retry"}
          /\ (ReadAllowed /\ AcquireRead(t)) \/ (~ReadAllowed /\ EnqueueReader(t))
      BY <2>1 DEF ReadLock, TryReadLock, MayRead, At
    <3> QED
      BY <3>1, WakeAcquire, WakeEnqueue
  <2>2. ASSUME NEW t \in Thread, WriteLock(t) \/ WriteRetry(t) \/ TryWriteLock(t)
        PROVE  WaitQueuesOK' /\ NoLostWakeup'
    <3>1. /\ current = t
          /\ \/ pc[t] = "user" /\ WriteAllowed /\ AcquireWrite(t, 0)
             \/ pc[t] = "user" /\ ~WriteAllowed /\ EnqueueWriter(t, 0)
             \/ pc[t] = "wr_retry" /\ WriteAllowed /\ AcquireWrite(t, 1)
             \/ pc[t] = "wr_retry" /\ ~WriteAllowed /\ EnqueueWriter(t, 1)
      BY <2>2 DEF WriteLock, WriteRetry, TryWriteLock, MayWrite, At
    <3> QED
      BY <3>1, WakeAcquire, WakeEnqueue
  <2>3. ASSUME NEW t \in Thread, Unlock(t) PROVE WaitQueuesOK' /\ NoLostWakeup'
    BY <2>3, WakeUnlock
  <2>4. ASSUME NEW t \in Thread, Park(t) PROVE WaitQueuesOK' /\ NoLostWakeup'
    BY <2>4, WakePark
  <2>5. CASE UNCHANGED <<schedVars, lockVars, read_waiters, write_waiters, pc>>
    BY <2>5 DEF schedVars, lockVars, WaitQueuesOK, RunStructureOK, NoLostWakeup,
                WriteAllowed, Awake
  <2>6. ASSUME NEW t \in Thread, Destroy(t) PROVE WaitQueuesOK' /\ NoLostWakeup'
    BY <2>5, <2>6 DEF Destroy
  <2>7. ASSUME NEW t \in Thread, RWLockInit(t) PROVE WaitQueuesOK' /\ NoLostWakeup'
    <3>1. /\ read_waiters' = <<>> /\ write_waiters' = <<>>
          /\ Members(<<>>) = {} /\ Distinct(<<>>)
      BY <2>7, EmptyFacts, <<>> \in Seq(Thread) DEF RWLockInit
    <3> QED
      BY <2>7, <3>1 DEF RWLockInit, schedVars, WaitQueuesOK, RunStructureOK, NoLostWakeup
  <2>8. ASSUME NEW t \in Thread, Yield(t) \/ Tick(t) PROVE WaitQueuesOK' /\ NoLostWakeup'
    BY <2>8, WakeSwitch
  <2>9. CASE UNCHANGED vars
    BY <2>5, <2>9 DEF vars, queueVars
  <2> QED
    BY <2>1, <2>2, <2>3, <2>4, <2>6, <2>7, <2>8, <2>9 DEF Next, Step
<1> QED
  BY <1>1, <1>2, LockInvariant, PTL DEF Spec
=============================================================================
