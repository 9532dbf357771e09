-------------------------- MODULE LifecycleProofs --------------------------
(***************************************************************************)
(* Proofs about Lifecycle, for any number of threads, any size of the      *)
(* table and both kinds of program.  LifeInv is the inductive invariant:   *)
(* that the exit of a thread wakes its joiner rests on joiner and target   *)
(* pointing at each other (JoinsPaired), and that the joiner it makes      *)
(* ready is alive rests on what Existing says of every structure.          *)
(***************************************************************************)
EXTENDS Lifecycle, SchedulerProofs

PC == {"user", "join", "joining", "exiting"}

(* The invariant, unfolded once for the steps below.                       *)
LEMMA LifeFacts ==
  ASSUME LifeInv
  PROVE  /\ SchedTypeOK /\ current \in Thread \cup {Idle} /\ ready \subseteq Thread
         /\ state \in [Thread -> ThreadState]
         /\ mem \in [Thread -> {"unused", "live", "freed"}]
         /\ all_threads \subseteq Thread /\ main \in Thread
         /\ program \in {"owner", "free"}
         /\ detached \in [Thread -> BOOLEAN] /\ exited \in [Thread -> BOOLEAN]
         /\ joiner \in [Thread -> Thread \cup {None}] /\ pc \in [Thread -> PC]
         /\ target \in [Thread -> Thread \cup {None}]
         /\ creator \in [Thread -> Thread \cup {None}]
         /\ initialized \in BOOLEAN /\ aborted \in BOOLEAN
         /\ \A t \in Thread : t \in all_threads <=> mem[t] = "live"
         /\ None \notin Thread
  BY LifecycleAssumption DEF LifeInv, TypeOK, SchedTypeOK, TableExact, PC

(* A thread that runs in the library has not exited, is allocated, and is  *)
(* registered.                                                             *)
LEMMA RunnerFacts ==
  ASSUME LifeInv, NEW t \in Thread, current = t, pc[t] # "exiting", initialized
  PROVE  mem[t] = "live" /\ t \in all_threads /\ ~exited[t]
  BY LifeFacts DEF LifeInv, Existing

-----------------------------------------------------------------------------
(* One lemma for each kind of step.                                        *)

(* A new thread starts with a clean structure.                             *)
LEMMA LifeCreate ==
  ASSUME LifeInv, NEW t \in Thread, Create(t)
  PROVE  LifeInv'
<1>0. UNCHANGED <<exited, joiner, pc, target, main, program, initialized>>
  BY DEF Create
<1>1. CASE UNCHANGED <<schedVars, mem, all_threads, detached, creator>> /\ aborted' = TRUE
  BY <1>0, <1>1 DEF LifeInv, TypeOK, SchedTypeOK, TableExact, Existing, JoinsPaired,
                    JoinerWoken, Owned, schedVars
<1>2. ASSUME NEW u \in Thread, NEW d \in BOOLEAN, mem[u] = "unused",
             d => program = "free",
             all_threads' = all_threads \cup {u}, UNCHANGED aborted,
             mem' = [mem EXCEPT ![u] = "live"],
             detached' = [detached EXCEPT ![u] = d],
             creator' = [creator EXCEPT ![u] = t],
             scheduler_unblock({u}), current = t, pc[t] = "user", initialized
      PROVE  LifeInv'
  <2>1. /\ \A v \in Thread : mem'[v] = IF v = u THEN "live" ELSE mem[v]
        /\ mem' \in [Thread -> {"unused", "live", "freed"}]
        /\ \A v \in Thread : creator'[v] = IF v = u THEN t ELSE creator[v]
        /\ creator' \in [Thread -> Thread \cup {None}]
        /\ ready' = ready \cup {u} /\ current' = current
    BY <1>2, LifeFacts DEF scheduler_unblock
  <2>2. /\ detached' \in [Thread -> BOOLEAN] /\ detached'[u] = d
        /\ \A v \in Thread : v # u => detached'[v] = detached[v]
    BY <1>2, LifeFacts, Zenon
  <2>3. SchedTypeOK'
    BY <1>2, LifeFacts DEF scheduler_unblock, SchedTypeOK, ThreadState
  <2>4. TypeOK'
    BY <1>0, <1>2, <2>1, <2>2, <2>3, LifeFacts DEF TypeOK, PC
  <2>5. TableExact'
    BY <1>2, <2>1, LifeFacts DEF TableExact
  <2>6. pc[u] = "user" /\ joiner[u] = None /\ ~exited[u] /\ u \notin all_threads /\ u # t
    BY <1>2, LifeFacts DEF LifeInv, Existing
  <2>7. Existing'
    BY <1>0, <1>2, <2>1, <2>6, LifeFacts DEF LifeInv, Existing
  <2>8. JoinsPaired'
    BY <1>0, <1>2, <2>6, LifeFacts DEF LifeInv, JoinsPaired
  <2>9. JoinerWoken'
    BY <1>0, <1>2, <2>1, <2>6, LifeFacts DEF LifeInv, JoinerWoken
  <2>10. Owned'
    <3>1. ASSUME program = "owner", NEW v \in Thread, detached'[v] PROVE exited[v]
      BY <1>2, <2>2, <3>1 DEF LifeInv, Owned
    <3>2. ASSUME program = "owner", NEW v \in all_threads, pc[v] \in {"join", "joining"}
          PROVE  creator'[target[v]] = v /\ mem'[target[v]] = "live"
      BY <1>2, <2>1, <3>2, LifeFacts DEF LifeInv, Owned, Existing
    <3>3. program = "owner" /\ initialized /\ current \in Thread => mem'[current] = "live"
      BY <2>1 DEF LifeInv, Owned
    <3> QED
      BY <1>0, <1>2, <2>1, <2>6, <3>1, <3>2, <3>3 DEF Owned
  <2> QED
    BY <2>4, <2>5, <2>7, <2>8, <2>9, <2>10 DEF LifeInv
<1> QED
  BY <1>1, <1>2 DEF Create, scheduler_add_thread, At

(* A thread that is in no sleep and no exit moves to "join" or back.       *)
LEMMA LifeMove ==
  ASSUME LifeInv, NEW t \in Thread, current = t, pc[t] \in {"user", "join"}, initialized,
         NEW l \in {"user", "join"}, pc' = [pc EXCEPT ![t] = l],
         NEW u \in Thread \cup {None}, target' = [target EXCEPT ![t] = u],
         l = "join" => /\ u \in Thread
                       /\ program = "owner" => creator[u] = t /\ mem[u] = "live",
         UNCHANGED <<schedVars, mem, all_threads, flags, creator, globals>>
  PROVE  LifeInv'
<1>1. /\ \A v \in Thread : pc'[v] = IF v = t THEN l ELSE pc[v]
      /\ \A v \in Thread : target'[v] = IF v = t THEN u ELSE target[v]
      /\ pc' \in [Thread -> PC] /\ target' \in [Thread -> Thread \cup {None}]
      /\ UNCHANGED <<current, state, ready, detached, exited, joiner,
                     main, program, initialized, aborted>>
  BY LifeFacts DEF PC, schedVars, flags, globals
<1>2. TypeOK'
  BY <1>1, LifeFacts DEF TypeOK, SchedTypeOK, PC
<1>3. TableExact'
  BY DEF LifeInv, TableExact
<1>4. t \in all_threads /\ ~exited[t] /\ mem[t] = "live"
  BY RunnerFacts
<1>5. Existing'
  BY <1>1, <1>4, LifeFacts DEF LifeInv, Existing
<1>6. JoinsPaired'
  <2>1. \A v \in Thread : pc[v] = "joining" => pc'[v] = "joining" /\ target'[v] = target[v]
    BY <1>1
  <2>2. \A v \in Thread : pc'[v] = "joining" => pc[v] = "joining" /\ target'[v] = target[v]
    BY <1>1
  <2> QED
    BY <1>1, <2>1, <2>2, LifeFacts DEF LifeInv, JoinsPaired
<1>7. JoinerWoken'
  BY <1>1, LifeFacts DEF LifeInv, JoinerWoken
<1>8. Owned'
  BY <1>1, LifeFacts DEF LifeInv, Owned
<1> QED
  BY <1>2, <1>3, <1>5, <1>6, <1>7, <1>8 DEF LifeInv

(* The structure of an exited thread is freed by t, which is in user code  *)
(* afterwards.                                                             *)
LEMMA LifeReap ==
  ASSUME LifeInv, NEW t \in Thread, current = t, pc[t] # "exiting", initialized,
         pc' = [pc EXCEPT ![t] = "user"],
         NEW u \in Thread, exited[u], Free(u),
         pc[t] = "user" \/ target[t] = u,
         program = "owner" => creator[u] = t,
         detached' \in [Thread -> BOOLEAN],
         \A v \in Thread : v # u => detached'[v] = detached[v],
         UNCHANGED <<schedVars, exited, joiner, target, creator, globals>>
  PROVE  LifeInv'
<1>1. /\ \A v \in Thread : pc'[v] = IF v = t THEN "user" ELSE pc[v]
      /\ \A v \in Thread : mem'[v] = IF v = u THEN "freed" ELSE mem[v]
      /\ pc' \in [Thread -> PC] /\ mem' \in [Thread -> {"unused", "live", "freed"}]
      /\ all_threads' = all_threads \ {u}
      /\ UNCHANGED <<current, state, ready, main, program, initialized, aborted>>
  BY LifeFacts DEF PC, schedVars, globals, Free
<1>2. TypeOK'
  BY <1>1, LifeFacts DEF TypeOK, SchedTypeOK, PC
<1>3. TableExact'
  BY <1>1, LifeFacts DEF TableExact
<1>4. t \in all_threads /\ ~exited[t] /\ mem[t] = "live" /\ u # t /\ u \notin ready
  BY RunnerFacts DEF LifeInv, Existing
<1>5. Existing'
  BY <1>1, <1>4, LifeFacts DEF LifeInv, Existing
<1>6. JoinsPaired'
  <2>1. ASSUME NEW v \in all_threads', ~exited[v], joiner[v] # None
        PROVE  /\ joiner[v] \in all_threads'
               /\ pc'[joiner[v]] = "joining" /\ target[joiner[v]] = v
    <3>1. joiner[v] \in all_threads /\ pc[joiner[v]] = "joining" /\ target[joiner[v]] = v
      BY <1>1, <2>1 DEF LifeInv, JoinsPaired
    <3>2. joiner[v] # u
      BY <3>1, LifeFacts DEF LifeInv, Existing
    <3>3. joiner[v] # t
      BY <2>1, <3>1
    <3> QED
      BY <1>1, <3>1, <3>2, <3>3, LifeFacts
  <2> QED
    BY <1>1, <2>1, LifeFacts DEF LifeInv, JoinsPaired
<1>7. JoinerWoken'
  BY <1>1, LifeFacts DEF LifeInv, JoinerWoken
<1>8. Owned'
  <2> SUFFICES ASSUME program = "owner" PROVE Owned'
    BY <1>1 DEF Owned
  <2>1. \A v \in Thread : detached'[v] => exited[v]
    BY LifeFacts DEF LifeInv, Owned
  <2>2. initialized /\ current \in Thread => mem'[current] = "live"
    BY <1>1, <1>4
  <2>3. ASSUME NEW v \in all_threads', pc'[v] \in {"join", "joining"}
        PROVE  creator[target[v]] = v /\ mem'[target[v]] = "live"
    BY <1>1, <2>3, LifeFacts DEF LifeInv, Owned, Existing
  <2> QED
    BY <1>1, <2>1, <2>2, <2>3 DEF Owned
<1> QED
  BY <1>2, <1>3, <1>5, <1>6, <1>7, <1>8 DEF LifeInv

(* A thread goes to sleep in uthread_join: nobody else sleeps there for    *)
(* the same target, or its joiner field would say so.                      *)
LEMMA LifeSleep ==
  ASSUME LifeInv, NEW t \in Thread, current = t, initialized,
         NEW u \in Thread, target[t] = u, mem[u] = "live", ~exited[u],
         \/ pc[t] = "join" /\ joiner[u] \in {None, t}
         \/ pc[t] = "joining",
         pc' = [pc EXCEPT ![t] = "joining"],
         joiner' = [joiner EXCEPT ![u] = t],
         scheduler_schedule([state EXCEPT ![t] = "BLOCKED"], ready),
         UNCHANGED <<mem, all_threads, detached, exited, target, creator, globals>>
  PROVE  LifeInv'
<1>1. /\ \A v \in Thread : pc'[v] = IF v = t THEN "joining" ELSE pc[v]
      /\ \A v \in Thread : joiner'[v] = IF v = u THEN t ELSE joiner[v]
      /\ pc' \in [Thread -> PC] /\ joiner' \in [Thread -> Thread \cup {None}]
      /\ UNCHANGED <<main, program, initialized, aborted>>
  BY LifeFacts DEF PC, globals
<1>2. /\ SchedTypeOK' /\ current' \in ready \cup {Idle} /\ ready' = ready \ {current'}
  <2>1. [state EXCEPT ![t] = "BLOCKED"] \in [Thread -> ThreadState] /\ ready \in SUBSET Thread
    BY LifeFacts DEF ThreadState
  <2> QED
    BY <2>1, ScheduleFacts
<1>3. TypeOK'
  BY <1>1, <1>2, LifeFacts DEF TypeOK, SchedTypeOK, PC
<1>4. TableExact'
  BY DEF LifeInv, TableExact
<1>5. t \in all_threads /\ ~exited[t] /\ mem[t] = "live" /\ u \in all_threads
  BY RunnerFacts, LifeFacts
<1>6. Existing'
  BY <1>1, <1>2, <1>5, LifeFacts, IdleAssumption DEF LifeInv, Existing
<1>7. JoinsPaired'
  <2>1. ASSUME NEW v \in all_threads, pc'[v] = "joining", ~exited[target[v]]
        PROVE  joiner'[target[v]] = v
    <3>1. CASE v = t
      BY <1>1, <3>1
    <3>2. CASE v # t
      <4>1. pc[v] = "joining" /\ joiner[target[v]] = v /\ target[v] \in Thread
        BY <1>1, <2>1, <3>2, LifeFacts DEF LifeInv, JoinsPaired, Existing
      <4>2. pc[t] = "joining" => joiner[u] = t
        BY <1>5 DEF LifeInv, JoinsPaired
      <4>3. target[v] # u
        BY <3>2, <4>1, <4>2, LifeFacts
      <4> QED
        BY <1>1, <4>1, <4>3
    <3> QED
      BY <3>1, <3>2
  <2>2. ASSUME NEW v \in all_threads, ~exited[v], joiner'[v] # None
        PROVE  /\ joiner'[v] \in all_threads
               /\ pc'[joiner'[v]] = "joining" /\ target[joiner'[v]] = v
    <3>1. CASE v = u
      BY <1>1, <1>5, <3>1
    <3>2. CASE v # u
      BY <1>1, <2>2, <3>2, LifeFacts DEF LifeInv, JoinsPaired
    <3> QED
      BY <3>1, <3>2
  <2> QED
    BY <2>1, <2>2 DEF JoinsPaired
<1>8. JoinerWoken'
  <2>1. ASSUME NEW v \in all_threads, pc'[v] = "joining", exited[target[v]]
        PROVE  v \in ready' \cup {current'}
    <3>1. v # t
      BY <2>1
    <3>2. v \in ready
      BY <1>1, <2>1, <3>1, LifeFacts DEF LifeInv, JoinerWoken
    <3> QED
      BY <1>2, <3>2
  <2> QED
    BY <2>1 DEF JoinerWoken
<1>9. Owned'
  BY <1>1, <1>2, LifeFacts, IdleAssumption DEF LifeInv, Owned, Existing
<1> QED
  BY <1>3, <1>4, <1>6, <1>7, <1>8, <1>9 DEF LifeInv

(* uthread_join, before and after a sleep.                                 *)
LEMMA LifeJoin ==
  ASSUME LifeInv, NEW t \in Thread, JoinBody(t) \/ JoinResume(t)
  PROVE  LifeInv'
<1>1. /\ current = t /\ pc[t] \in {"join", "joining"} /\ mem[target[t]] = "live"
      /\ UNCHANGED <<detached, exited, target, creator, globals>>
      /\ \/ pc[t] = "join" /\ pc' = [pc EXCEPT ![t] = "user"]
                           /\ UNCHANGED <<schedVars, mem, all_threads, joiner>>
         \/ JoinLoop(t) /\ (pc[t] = "joining" \/ joiner[target[t]] \in {None, t})
  BY DEF JoinBody, JoinResume, At, Goto
<1>2. target[t] \in Thread
  BY <1>1 DEF LifeInv, Existing
<1>3. initialized
  BY <1>1, <1>2, LifeFacts DEF LifeInv, Existing
<1>4. CASE /\ pc[t] = "join" /\ pc' = [pc EXCEPT ![t] = "user"]
           /\ UNCHANGED <<schedVars, mem, all_threads, joiner>>
  <2>1. target' = [target EXCEPT ![t] = target[t]]
    BY <1>1, LifeFacts
  <2>2. UNCHANGED <<schedVars, mem, all_threads, flags, creator, globals>>
    BY <1>1, <1>4 DEF flags
  <2> QED
    BY <1>1, <1>2, <1>3, <1>4, <2>1, <2>2, LifeMove
<1>5. CASE JoinLoop(t) /\ exited[target[t]]
  <2>1. /\ Free(target[t]) /\ pc' = [pc EXCEPT ![t] = "user"]
        /\ UNCHANGED <<schedVars, joiner>>
    BY <1>5 DEF JoinLoop, Goto
  <2>2. detached' \in [Thread -> BOOLEAN] /\ \A v \in Thread : detached'[v] = detached[v]
    BY <1>1, LifeFacts
  <2>3. program = "owner" => creator[target[t]] = t
    BY <1>1, <1>3, RunnerFacts DEF LifeInv, Owned
  <2> QED
    BY <1>1, <1>2, <1>3, <1>5, <2>1, <2>2, <2>3, LifeReap
<1>6. CASE JoinLoop(t) /\ ~exited[target[t]] /\ (pc[t] = "joining" \/ joiner[target[t]] \in {None, t})
  <2>1. /\ joiner' = [joiner EXCEPT ![target[t]] = t]
        /\ scheduler_schedule([state EXCEPT ![t] = "BLOCKED"], ready)
        /\ pc' = [pc EXCEPT ![t] = "joining"]
        /\ UNCHANGED <<mem, all_threads>>
    BY <1>6 DEF JoinLoop, Goto
  <2> QED
    BY <1>1, <1>2, <1>3, <1>6, <2>1, LifeSleep
<1> QED
  BY <1>1, <1>4, <1>5, <1>6

(* uthread_detach reaps a thread that has exited, and otherwise marks it.  *)
LEMMA LifeDetach ==
  ASSUME LifeInv, NEW t \in Thread, Detach(t)
  PROVE  LifeInv'
<1>1. /\ current = t /\ pc[t] = "user" /\ initialized
      /\ UNCHANGED <<schedVars, exited, joiner, pc, target, creator, globals>>
  BY DEF Detach, At
<1>2. PICK u \in Thread :
        /\ MayDetach(t, u)
        /\ detached' = [detached EXCEPT ![u] = TRUE]
        /\ IF exited[u] THEN Free(u) ELSE UNCHANGED <<mem, all_threads>>
  BY DEF Detach
<1>3. /\ detached' \in [Thread -> BOOLEAN]
      /\ \A v \in Thread : v # u => detached'[v] = detached[v]
  BY <1>2, LifeFacts, Zenon
<1>4. CASE exited[u]
  <2>1. pc' = [pc EXCEPT ![t] = "user"]
    BY <1>1, LifeFacts
  <2>2. Free(u) /\ (program = "owner" => creator[u] = t)
    BY <1>2, <1>4, LifeFacts DEF MayDetach, MayHandle
  <2> QED
    BY <1>1, <1>3, <1>4, <2>1, <2>2, LifeReap
<1>5. CASE ~exited[u]
  <2>1. program # "owner" /\ UNCHANGED <<mem, all_threads>>
    BY <1>2, <1>5, LifeFacts DEF MayDetach
  <2>2. TypeOK'
    BY <1>1, <1>3, <2>1 DEF LifeInv, TypeOK, SchedTypeOK, schedVars, globals
  <2> QED
    BY <1>1, <2>1, <2>2 DEF LifeInv, TableExact, Existing, JoinsPaired, JoinerWoken, Owned,
                            schedVars, globals
<1> QED
  BY <1>4, <1>5

(* uthread_exit makes the one thread ready that sleeps for it.             *)
LEMMA LifeExit ==
  ASSUME LifeInv, NEW t \in Thread, Exit(t)
  PROVE  LifeInv'
<1>1. /\ current = t /\ pc[t] = "user" /\ initialized
      /\ UNCHANGED <<current, detached, joiner, target, creator,
                     main, program, initialized, aborted>>
      /\ ready' = (ready \ {t}) \cup ({joiner[t]} \ {None})
      /\ \A v \in Thread : pc'[v] = IF v = t THEN "exiting" ELSE pc[v]
      /\ pc' \in [Thread -> PC]
      /\ SchedTypeOK'
  BY LifeFacts DEF Exit, At, Goto, globals, PC, SchedTypeOK, ThreadState
<1>2. /\ exited' \in [Thread -> BOOLEAN] /\ exited'[t]
      /\ \A v \in Thread : v # t => exited'[v] = exited[v]
  BY LifeFacts, Zenon DEF Exit
<1>3. /\ \A v \in Thread : v # t => mem'[v] = mem[v]
      /\ mem' \in [Thread -> {"unused", "live", "freed"}]
      /\ mem'[t] \in {mem[t], "freed"} /\ (~detached[t] => mem'[t] = mem[t])
      /\ \A v \in Thread : v \in all_threads' <=> mem'[v] = "live"
      /\ all_threads' \subseteq all_threads
      /\ \A v \in all_threads : v # t => v \in all_threads'
  BY LifeFacts DEF Exit, Free
<1>4. t \in all_threads /\ ~exited[t] /\ mem[t] = "live"
  BY <1>1, RunnerFacts
<1>5. joiner[t] # None => /\ joiner[t] \in all_threads /\ pc[joiner[t]] = "joining"
                          /\ joiner[t] # t /\ joiner[t] \in Thread
                          /\ mem[joiner[t]] = "live" /\ ~exited[joiner[t]]
  BY <1>1, <1>4, LifeFacts DEF LifeInv, JoinsPaired, Existing
<1>6. TypeOK'
  BY <1>1, <1>2, <1>3, LifeFacts DEF TypeOK, PC
<1>7. TableExact'
  BY <1>3, LifeFacts DEF TableExact
<1>8. Existing'
  <2>1. \A v \in Thread : exited'[v] <=> pc'[v] = "exiting"
    BY <1>1, <1>2 DEF LifeInv, Existing
  <2>2. \A v \in Thread : mem'[v] = "unused" => pc'[v] = "user" /\ joiner[v] = None
    BY <1>1, <1>3, <1>4 DEF LifeInv, Existing
  <2>3. \A v \in ready' : mem'[v] = "live" /\ ~exited'[v]
    BY <1>1, <1>2, <1>3, <1>5, LifeFacts DEF LifeInv, Existing
  <2>4. \A v \in Thread : pc'[v] \in {"join", "joining"} => target[v] \in Thread
    BY <1>1 DEF LifeInv, Existing
  <2> QED
    BY <1>1, <1>2, <1>3, <1>4, <2>1, <2>2, <2>3, <2>4 DEF Existing
<1>9. JoinsPaired'
  <2>1. ASSUME NEW v \in all_threads', pc'[v] = "joining", ~exited'[target[v]]
        PROVE  joiner[target[v]] = v
    <3>1. v # t /\ v \in all_threads /\ pc[v] = "joining" /\ v \in Thread
      BY <1>1, <1>3, <2>1, LifeFacts
    <3>2. target[v] \in Thread /\ target[v] # t
      BY <1>2, <2>1, <3>1 DEF LifeInv, Existing
    <3> QED
      BY <1>2, <2>1, <3>1, <3>2 DEF LifeInv, JoinsPaired
  <2>2. ASSUME NEW v \in all_threads', ~exited'[v], joiner[v] # None
        PROVE  /\ joiner[v] \in all_threads'
               /\ pc'[joiner[v]] = "joining" /\ target[joiner[v]] = v
    <3>1. v # t /\ v \in all_threads /\ ~exited[v]
      BY <1>2, <1>3, <2>2, LifeFacts
    <3>2. joiner[v] \in all_threads /\ pc[joiner[v]] = "joining" /\ target[joiner[v]] = v
      BY <2>2, <3>1 DEF LifeInv, JoinsPaired
    <3> QED
      BY <1>1, <1>3, <3>2, LifeFacts
  <2> QED
    BY <1>1, <2>1, <2>2 DEF JoinsPaired
<1>10. JoinerWoken'
  <2>1. ASSUME NEW v \in all_threads', pc'[v] = "joining", exited'[target[v]]
        PROVE  v \in ready'
    <3>1. v # t /\ v \in all_threads /\ pc[v] = "joining" /\ v \in Thread
      BY <1>1, <1>3, <2>1, LifeFacts
    <3>2. CASE target[v] = t
      <4>1. joiner[t] = v
        BY <1>4, <3>1, <3>2 DEF LifeInv, JoinsPaired
      <4> QED
        BY <1>1, <3>1, <4>1, LifeFacts
    <3>3. CASE target[v] # t
      <4>1. exited[target[v]]
        BY <1>2, <2>1, <3>1, <3>3 DEF LifeInv, Existing
      <4> QED
        BY <1>1, <3>1, <4>1 DEF LifeInv, JoinerWoken
    <3> QED
      BY <3>2, <3>3
  <2> QED
    BY <1>1, <2>1 DEF JoinerWoken
<1>11. Owned'
  <2> SUFFICES ASSUME program = "owner" PROVE Owned'
    BY <1>1 DEF Owned
  <2>1. ~detached[t] /\ \A v \in Thread : detached[v] => exited'[v]
    BY <1>2, <1>4 DEF LifeInv, Owned
  <2>2. mem' = mem /\ all_threads' = all_threads
    BY <2>1 DEF Exit
  <2> QED
    BY <1>1, <1>4, <2>1, <2>2, LifeFacts DEF LifeInv, Owned
<1> QED
  BY <1>6, <1>7, <1>8, <1>9, <1>10, <1>11 DEF LifeInv

(* A thread gives the CPU to one that is ready, and stays ready itself or  *)
(* is not asleep in uthread_join.                                          *)
LEMMA LifeSwitch ==
  ASSUME LifeInv, NEW t \in Thread, current = t, pc[t] \in {"user", "join", "exiting"},
         SchedTypeOK', ready' \subseteq ready \cup {t}, ready \subseteq ready' \cup {current'},
         current' \in ready \cup {t, Idle},
         pc[t] = "exiting" => t \notin ready' /\ (current' = t => mem[t] = "live"),
         initialized \/ mem[t] = "live",
         UNCHANGED <<mem, all_threads, flags, pc, target, creator, globals>>
  PROVE  LifeInv'
<1>1. UNCHANGED <<detached, exited, joiner, main, program, initialized, aborted>>
  BY DEF flags, globals
<1>2. TypeOK' /\ TableExact' /\ JoinsPaired'
  BY <1>1 DEF LifeInv, TypeOK, TableExact, JoinsPaired
<1>3. initialized
  BY LifeFacts DEF LifeInv, Existing
<1>4. pc[t] # "exiting" => mem[t] = "live" /\ ~exited[t]
  BY <1>3, RunnerFacts
<1>5. Existing'
  <2>1. \A v \in ready' : mem[v] = "live" /\ ~exited[v]
    BY <1>4 DEF LifeInv, Existing
  <2>2. current' \in Thread => mem[current'] = "live"
    BY <1>4, IdleAssumption DEF LifeInv, Existing
  <2> QED
    BY <1>1, <2>1, <2>2 DEF LifeInv, Existing
<1>6. JoinerWoken'
  BY <1>1, <1>3 DEF LifeInv, JoinerWoken
<1>7. Owned'
  BY <1>1, <1>4, IdleAssumption DEF LifeInv, Owned, Existing
<1> QED
  BY <1>2, <1>5, <1>6, <1>7 DEF LifeInv

(* The three callers of it.                                                *)
LEMMA LifeDispatch ==
  ASSUME LifeInv, NEW t \in Thread, Dispatch(t) \/ Yield(t) \/ Tick(t)
  PROVE  LifeInv'
<1>1. /\ current = t /\ UNCHANGED <<mem, all_threads, flags, pc, target, creator, globals>>
      /\ state \in [Thread -> ThreadState] /\ ready \in SUBSET Thread
  BY LifeFacts DEF Dispatch, Yield, Tick, At
<1>2. CASE Dispatch(t)
  <2>1. /\ pc[t] = "exiting" /\ mem[t] = "live" /\ scheduler_schedule(state, ready)
    BY <1>2 DEF Dispatch, At
  <2>2. SchedTypeOK' /\ current' \in ready \cup {Idle} /\ ready' = ready \ {current'}
    BY <1>1, <2>1, ScheduleFacts
  <2>3. t \notin ready
    BY <2>1 DEF LifeInv, Existing
  <2> QED
    BY <1>1, <2>1, <2>2, <2>3, LifeSwitch
<1>3. CASE Yield(t) \/ Tick(t)
  <2>1. /\ pc[t] \in {"user", "join"} /\ initialized
        /\ uthread_yield(t) \/ scheduler_tick(t)
    BY <1>3 DEF Yield, Tick, At
  <2>2. /\ SchedTypeOK' /\ ready' \subseteq ready \cup {t} /\ ready \subseteq ready' \cup {current'}
        /\ current' \in ready \cup {t, Idle}
    <3> DEFINE st == [state EXCEPT ![t] = "READY"]
    <3>1. st \in [Thread -> ThreadState] /\ ready \cup {t} \in SUBSET Thread
      BY <1>1 DEF ThreadState
    <3>2. scheduler_schedule(st, ready \cup {t}) \/ scheduler_schedule(state, ready)
      BY <2>1 DEF uthread_yield, scheduler_tick
    <3>3. CASE scheduler_schedule(st, ready \cup {t})
      <4>1. SchedTypeOK' /\ current' \in (ready \cup {t}) \cup {Idle} /\ ready' = (ready \cup {t}) \ {current'}
        BY <3>1, <3>3, ScheduleFacts
      <4> QED
        BY <4>1
    <3>4. CASE scheduler_schedule(state, ready)
      BY <1>1, <3>4, ScheduleFacts
    <3> QED
      BY <3>2, <3>3, <3>4
  <2>3. pc[t] \in {"user", "join", "exiting"} /\ pc[t] # "exiting"
    BY <2>1
  <2> QED
    BY <1>1, <2>1, <2>2, <2>3, LifeSwitch
<1> QED
  BY <1>2, <1>3

(* uthread_shutdown, and the uthread_init that may follow it.              *)
LEMMA LifeShutdown ==
  ASSUME LifeInv, NEW t \in Thread, Shutdown(t) \/ Restart(t)
  PROVE  LifeInv'
<1>1. CASE Shutdown(t)
  <2>1. /\ current = t /\ initialized /\ all_threads' = {} /\ ready' = {} /\ initialized' = FALSE
        /\ mem' = [u \in Thread |-> IF u \in all_threads THEN "freed" ELSE mem[u]]
        /\ UNCHANGED <<current, state, detached, exited, joiner, pc, target, creator,
                       main, program, aborted>>
    BY <1>1 DEF Shutdown, At, flags
  <2>2. /\ mem' \in [Thread -> {"unused", "live", "freed"}]
        /\ \A v \in Thread : mem'[v] # "live" /\ (mem'[v] = "unused" => mem[v] = "unused")
    BY <2>1, LifeFacts
  <2>3. TypeOK'
    BY <2>1, <2>2, LifeFacts DEF TypeOK, SchedTypeOK, PC
  <2>4. TableExact' /\ JoinsPaired' /\ JoinerWoken' /\ Owned'
    BY <2>1, <2>2 DEF LifeInv, TableExact, JoinsPaired, JoinerWoken, Owned
  <2>5. Existing'
    BY <2>1, <2>2 DEF LifeInv, Existing
  <2> QED
    BY <2>3, <2>4, <2>5 DEF LifeInv
<1>2. CASE Restart(t)
  <2>1. /\ ~initialized /\ ready' = {} /\ initialized' = TRUE
        /\ UNCHANGED <<detached, exited, joiner, pc, target, creator, program, aborted>>
    BY <1>2 DEF Restart, flags
  <2>2. PICK m \in Thread :
          /\ mem[m] = "unused" /\ main' = m /\ current' = m /\ all_threads' = {m}
          /\ state' = [state EXCEPT ![m] = "RUNNING"] /\ mem' = [mem EXCEPT ![m] = "live"]
    BY <1>2 DEF Restart
  <2>3. /\ mem' \in [Thread -> {"unused", "live", "freed"}]
        /\ \A v \in Thread : mem'[v] = IF v = m THEN "live" ELSE mem[v]
        /\ \A v \in Thread : mem[v] # "live"
        /\ SchedTypeOK'
    BY <2>1, <2>2, LifeFacts DEF LifeInv, Existing, SchedTypeOK, ThreadState
  <2>4. pc[m] = "user" /\ joiner[m] = None
    BY <2>2 DEF LifeInv, Existing
  <2>5. TypeOK'
    BY <2>1, <2>2, <2>3, LifeFacts DEF TypeOK, PC
  <2>6. TableExact'
    BY <2>2, <2>3 DEF TableExact
  <2>7. JoinsPaired' /\ JoinerWoken' /\ Owned'
    BY <2>1, <2>2, <2>3, <2>4 DEF LifeInv, JoinsPaired, JoinerWoken, Owned
  <2>8. Existing'
    BY <2>1, <2>2, <2>3, <2>4 DEF LifeInv, Existing
  <2> QED
    BY <2>5, <2>6, <2>7, <2>8 DEF LifeInv
<1> QED
  BY <1>1, <1>2

-----------------------------------------------------------------------------
(* The inductive invariant holds throughout.                               *)
THEOREM LifeInvariant == Spec => []LifeInv
<1>1. Init => LifeInv
  <2> SUFFICES ASSUME Init PROVE LifeInv
    OBVIOUS
  <2>1. SchedTypeOK
    BY DEF Init, SchedTypeOK, ThreadState
  <2>2. TypeOK
    BY <2>1, LifecycleAssumption DEF Init, TypeOK
  <2>3. TableExact /\ Existing
    BY DEF Init, TableExact, Existing
  <2>4. JoinsPaired /\ JoinerWoken /\ Owned
    BY DEF Init, JoinsPaired, JoinerWoken, Owned
  <2> QED
    BY <2>2, <2>3, <2>4 DEF LifeInv
<1>2. LifeInv /\ [Next]_vars => LifeInv'
  <2> SUFFICES ASSUME LifeInv, [Next]_vars PROVE LifeInv'
    OBVIOUS
  <2>1. ASSUME NEW t \in Thread, JoinCall(t) PROVE LifeInv'
    <3>1. PICK u \in Thread : MayHandle(t, u) /\ target' = [target EXCEPT ![t] = u]
      BY <2>1 DEF JoinCall
    <3>2. program = "owner" => creator[u] = t /\ mem[u] = "live"
      BY <3>1 DEF MayHandle
    <3>3. /\ current = t /\ pc[t] = "user" /\ initialized /\ pc' = [pc EXCEPT ![t] = "join"]
          /\ UNCHANGED <<schedVars, mem, all_threads, flags, creator, globals>>
      BY <2>1 DEF JoinCall, At, Goto
    <3> QED
      BY <3>1, <3>2, <3>3, LifeMove
  <2>2. CASE UNCHANGED vars
    <3>1. UNCHANGED <<current, state, ready, mem, all_threads, detached, exited, joiner, pc,
                      target, creator, main, program, initialized, aborted>>
      BY <2>2 DEF vars, schedVars, flags, globals
    <3> QED
      BY <3>1 DEF LifeInv, TypeOK, SchedTypeOK, TableExact, Existing, JoinsPaired,
                  JoinerWoken, Owned
  <2> QED
    BY <2>1, <2>2, LifeCreate, LifeJoin, LifeDetach, LifeExit, LifeDispatch, LifeShutdown
    DEF Next, Step
<1> QED
  BY <1>1, <1>2, PTL DEF Spec

(* The exit of a thread is never missed by the thread that joins it.       *)
THEOREM JoinersAreWoken == Spec => []JoinerWoken
<1>1. LifeInv => JoinerWoken
  BY DEF LifeInv
<1> QED
  BY <1>1, LifeInvariant, PTL

(* all_threads lists exactly the allocated threads.                        *)
THEOREM TableIsExact == Spec => []TableExact
<1>1. LifeInv => TableExact
  BY DEF LifeInv
<1> QED
  BY <1>1, LifeInvariant, PTL

(* Only allocated threads that have not exited are ready, and in a program *)
(* of owners the stack in use and every join target are allocated.         *)
THEOREM NothingFreedIsUsed == Spec => []UsedAlive
<1>1. LifeInv => UsedAlive
  BY DEF LifeInv, Existing, Owned, UsedAlive
<1> QED
  BY <1>1, LifeInvariant, PTL

(* uthread_join, uthread_detach and uthread_exit free a thread only when   *)
(* it has exited: of all steps uthread_shutdown alone frees a thread that  *)
(* may still run.                                                          *)
THEOREM OnlyShutdownFreesRunning ==
  Spec => [][\A t \in Thread : mem[t] = "live" /\ mem'[t] = "freed" =>
               exited'[t] \/ \E u \in Thread : Shutdown(u)]_vars
<1> DEFINE Reaped == \A t \in Thread : mem[t] = "live" /\ mem'[t] = "freed" =>
                       exited'[t] \/ \E u \in Thread : Shutdown(u)
<1>1. LifeInv /\ [Next]_vars => [Reaped]_vars
  <2> SUFFICES ASSUME LifeInv, Next PROVE Reaped
    OBVIOUS
  <2>1. PICK t \in Thread : Step(t)
    BY DEF Next
  <2>2. CASE Create(t)
    BY <2>2, LifeFacts DEF Create
  <2>3. CASE JoinBody(t) \/ JoinResume(t)
    BY <2>3, LifeFacts DEF JoinBody, JoinResume, JoinLoop, Free, At
  <2>4. CASE Detach(t)
    BY <2>4, LifeFacts DEF Detach, Free
  <2>5. CASE Exit(t)
    <3>1. exited'[t] /\ \A u \in Thread : mem'[u] = "freed" => u = t \/ mem[u] = "freed"
      BY <2>5, LifeFacts DEF Exit, Free
    <3> QED
      BY <3>1, LifeFacts
  <2>6. CASE Restart(t)
    BY <2>6, LifeFacts DEF Restart
  <2>7. CASE Shutdown(t)
    BY <2>7
  <2>8. CASE UNCHANGED mem
    BY <2>8
  <2> QED
    BY <2>1, <2>2, <2>3, <2>4, <2>5, <2>6, <2>7, <2>8
    DEF Step, JoinCall, Dispatch, Yield, Tick
<1> QED
  BY <1>1, LifeInvariant, PTL DEF Spec
=============================================================================
