-------------------------- MODULE PreemptionProofs --------------------------
(***************************************************************************)
(* Proofs about Preemption, for any number of threads and any timeslices.  *)
(* Critical sections are masked and the timer agrees with its flags        *)
(* wherever ticks fall; contexts go wrong by a tick at "swap" and by       *)
(* nothing else.                                                           *)
(***************************************************************************)
EXTENDS Preemption, SchedulerProofs

-----------------------------------------------------------------------------
(* What an action does to the place and the mask of its thread.            *)

Unmasked == PC \ {"yielding"}

(* What preemption_enable does on either path.                             *)
LEMMA EnableFacts ==
  ASSUME SectionsMasked, NEW t \in Thread, preemption_enable(t, "user")
  PROVE  /\ \E l \in Unmasked \ (InStart \cup {"swap"}) : Goto(t, l)
         /\ \/ UNCHANGED masked
            \/ masked' = [masked EXCEPT ![t] = FALSE]
         /\ resume' \in [Thread -> {"user", "park", "woken"}]
  BY Zenon DEF SectionsMasked, preemption_enable, Goto, Unmasked, PC, InStart

(* Where scheduler_schedule() goes on with SIGALRM open.                   *)
LEMMA LaterFacts ==
  ASSUME SectionsMasked, NEW t \in Thread, NEW label \in {"user", "park", "woken"},
         SwitchLater(t, label)
  PROVE  /\ \E l \in {label, "swap"} : Goto(t, l)
         /\ resume' \in [Thread -> {"user", "park", "woken"}]
  BY DEF SectionsMasked, SwitchLater, Goto

(* A section stays masked whatever step is taken.                          *)
LEMMA SectionsStep ==
  ASSUME SectionsMasked, [Next]_vars
  PROVE  SectionsMasked'
<1> DEFINE Back == {"user", "park", "woken"}
<1>1. /\ pc \in [Thread -> PC] /\ masked \in [Thread -> BOOLEAN]
      /\ resume \in [Thread -> Back]
      /\ \A t \in Thread : pc[t] = "yielding" => masked[t]
  BY DEF SectionsMasked
<1>2. ASSUME NEW t \in Thread, NEW l \in PC, Goto(t, l), resume' \in [Thread -> Back],
             \/ l # "yielding" /\ UNCHANGED masked
             \/ l # "yielding" /\ \E b \in BOOLEAN : masked' = [masked EXCEPT ![t] = b]
             \/ masked' = [masked EXCEPT ![t] = TRUE]
      PROVE  SectionsMasked'
  <2>1. pc' = [pc EXCEPT ![t] = l]
    BY <1>2 DEF Goto
  <2>2. pc' \in [Thread -> PC] /\ \A u \in Thread : u # t => pc'[u] = pc[u]
    BY <1>1, <1>2, <2>1
  <2>3. masked' \in [Thread -> BOOLEAN] /\ \A u \in Thread : u # t => masked'[u] = masked[u]
    BY <1>1, <1>2, Zenon
  <2>4. pc'[t] = "yielding" => masked'[t]
    <3>1. pc'[t] = l
      BY <1>1, <2>1
    <3> QED
      BY <1>1, <1>2, <3>1, Zenon
  <2>5. \A u \in Thread : pc'[u] = "yielding" => masked'[u]
    BY <1>1, <2>2, <2>3, <2>4, Zenon
  <2> QED
    BY <1>2, <2>2, <2>3, <2>5 DEF SectionsMasked
<1>3. ASSUME NEW t \in Thread, Yield(t) \/ Exit(t) \/ WaitLoop(t) \/ WakeOne(t)
                                \/ \E ns \in Interval : uthread_set_timeslice(t, ns)
      PROVE  SectionsMasked'
  <2>1. /\ masked' = [masked EXCEPT ![t] = TRUE] /\ UNCHANGED resume
        /\ Goto(t, "yielding") \/ Goto(t, "gone")
    BY <1>3 DEF Yield, Exit, WaitLoop, WakeOne, uthread_set_timeslice, preemption_disable,
                switchVars
  <2> QED
    BY <1>1, <1>2, <2>1 DEF PC
<1>4. ASSUME NEW t \in Thread, Leave(t)
      PROVE  SectionsMasked'
  <2>1. PICK l \in Unmasked : Goto(t, l)
    BY <1>4, EnableFacts DEF Leave
  <2>2. /\ \/ UNCHANGED masked
           \/ masked' = [masked EXCEPT ![t] = FALSE]
        /\ resume' \in [Thread -> Back]
    BY <1>4, EnableFacts DEF Leave
  <2> QED
    BY <1>2, <2>1, <2>2 DEF Unmasked
<1>5. ASSUME NEW t \in Thread, PendingTick(t) \/ Park(t)
      PROVE  SectionsMasked'
  <2>1. PICK label \in Back :
          \/ SwitchLater(t, label)
          \/ Goto(t, label) /\ UNCHANGED resume
    BY <1>1, <1>5 DEF PendingTick, Park
  <2>2. (\E l \in {label, "swap"} : Goto(t, l)) /\ resume' \in [Thread -> Back]
    BY <1>1, <2>1, LaterFacts
  <2>3. UNCHANGED masked
    BY <1>5 DEF PendingTick, Park
  <2> QED
    BY <1>2, <2>2, <2>3 DEF PC
<1>6. ASSUME NEW t \in Thread, Wait(t)
      PROVE  SectionsMasked'
  <2>1. /\ \E l \in {"pending", "park"} : Goto(t, l)
        /\ resume' \in [Thread -> Back]
    BY <1>1, <1>6 DEF Wait
  <2>2. (s_preemption_disabled > 0) \in BOOLEAN
    OBVIOUS
  <2>3. \E b \in BOOLEAN : masked' = [masked EXCEPT ![t] = b]
    BY <1>6, <2>2, Zenon DEF Wait
  <2> QED
    BY <1>2, <2>1, <2>3 DEF PC
<1>7. ASSUME NEW t \in Thread, Swap(t)
      PROVE  SectionsMasked'
  <2>1. /\ Goto(t, resume[t]) /\ UNCHANGED masked
        /\ resume' = [resume EXCEPT ![t] = "user"]
    BY <1>7 DEF Swap
  <2>2. resume[t] \in PC \ {"yielding"} /\ resume' \in [Thread -> Back]
    BY <1>1, <2>1 DEF PC
  <2> QED
    BY <1>2, <2>1, <2>2
<1>8. ASSUME NEW t \in Thread, SetPreemptionOn(t) \/ timer_start(t)
      PROVE  SectionsMasked'
  <2>1. /\ \E l \in InStart \cup {"user"} : Goto(t, l)
        /\ UNCHANGED <<masked, resume>>
    BY <1>8 DEF SetPreemptionOn, timer_start, switchVars, InStart
  <2> QED
    BY <1>1, <1>2, <2>1 DEF PC, InStart
<1>9. CASE UNCHANGED <<pc, masked, resume>>
  BY <1>9 DEF SectionsMasked
<1>10. ASSUME NEW t \in Thread, timer_signal_handler(t) \/ SetPreemptionOff(t)
       PROVE  SectionsMasked'
  BY <1>9, <1>10 DEF timer_signal_handler, SetPreemptionOff, switchVars
<1>11. CASE Expire \/ UNCHANGED vars
  BY <1>9, <1>11 DEF Expire, vars, switchVars
<1> QED
  BY <1>3, <1>4, <1>5, <1>6, <1>7, <1>8, <1>10, <1>11, PreemptionAssumption DEF Next

(* SIGALRM is blocked on the CPU throughout every critical section.        *)
THEOREM CriticalSectionsMasked == Spec => []CriticalMasked
<1>1. Init => SectionsMasked
  BY DEF Init, SectionsMasked, PC
<1>2. SectionsMasked => CriticalMasked
  BY DEF SectionsMasked, CriticalMasked
<1> QED
  BY <1>1, <1>2, SectionsStep, PTL DEF Spec

-----------------------------------------------------------------------------
(* Contexts, and the one step that misplaces them.                         *)

TickAtSwap == \E t \in Thread : pc[t] = "swap" /\ timer_signal_handler(t)

(* Every other step respects the types.                                    *)
LEMMA TypeStep ==
  ASSUME RunsCurrent, SectionsMasked, SectionsMasked', [Next]_vars, ~TickAtSwap
  PROVE  TypeOK'
<1>1. /\ SchedTypeOK /\ s_preemption_disabled \in Nat /\ s_preempt_pending \in BOOLEAN
      /\ preemption_enabled \in BOOLEAN /\ s_timer_active \in BOOLEAN
      /\ timeslice_ns \in Interval /\ itimer \in Interval \cup {0} /\ sigalrm \in BOOLEAN
      /\ cpu \in Thread \cup {Idle} /\ saved \in [Thread -> Thread]
      /\ next \in [Thread -> Thread \cup {Idle}]
  BY DEF RunsCurrent, TypeOK
<1>2. current \in Thread \cup {Idle} /\ state \in [Thread -> ThreadState] /\ ready \in SUBSET Thread
  BY <1>1 DEF SchedTypeOK
<1>3. /\ pc' \in [Thread -> PC] /\ masked' \in [Thread -> BOOLEAN] /\ resume' \in [Thread -> PC]
  BY DEF SectionsMasked, PC
<1> DEFINE Counters == s_preemption_disabled' \in Nat /\ s_preempt_pending' \in BOOLEAN
           Control == /\ preemption_enabled' \in BOOLEAN /\ s_timer_active' \in BOOLEAN
                      /\ timeslice_ns' \in Interval /\ itimer' \in Interval \cup {0}
                      /\ sigalrm' \in BOOLEAN
           Switch == /\ cpu' \in Thread \cup {Idle} /\ saved' \in [Thread -> Thread]
                     /\ next' \in [Thread -> Thread \cup {Idle}]
<1>4. ASSUME SchedTypeOK', Counters, Control, Switch PROVE TypeOK'
  BY <1>3, <1>4 DEF TypeOK
<1>5. /\ UNCHANGED controlVars /\ (UNCHANGED sigalrm \/ sigalrm' \in BOOLEAN) => Control
      /\ UNCHANGED counterVars => Counters
      /\ UNCHANGED schedVars => SchedTypeOK'
      /\ UNCHANGED switchVars => Switch
      /\ UNCHANGED <<cpu, saved, next>> => Switch
  BY <1>1 DEF controlVars, counterVars, schedVars, switchVars, SchedTypeOK
<1>6. ASSUME NEW t \in Thread, preemption_disable(t), UNCHANGED s_preempt_pending
      PROVE  Counters
  BY <1>1, <1>6 DEF preemption_disable
<1>7. ASSUME NEW t \in Thread, SchedTypeOK', current \in Thread, SwitchNow(t)
      PROVE  Switch
  <2>1. current' \in Thread \cup {Idle}
    BY <1>7 DEF SchedTypeOK
  <2> QED
    BY <1>1, <1>7, <2>1 DEF SwitchNow, context_switch_to
<1>8. ASSUME NEW t \in Thread, SchedTypeOK', NEW l, SwitchLater(t, l)
      PROVE  Switch
  <2>1. current' \in Thread \cup {Idle}
    BY <1>8 DEF SchedTypeOK
  <2> QED
    BY <1>1, <1>8, <2>1 DEF SwitchLater
<1> HIDE DEF Counters, Control, Switch
<1>9. ASSUME NEW t \in Thread, Yield(t) \/ Exit(t) PROVE TypeOK'
  <2>1. SchedTypeOK' /\ current = t
    BY <1>1, <1>9, SwitchType, ExitType DEF Yield, Exit, uthread_yield, uthread_exit
  <2> QED
    BY <1>4, <1>5, <1>6, <1>7, <1>9, <2>1 DEF Yield, Exit
<1>10. ASSUME NEW t \in Thread, Leave(t) PROVE TypeOK'
  <2>1. Counters
    <3>1. s_preempt_pending' \in BOOLEAN
      BY <1>1, <1>10, Zenon DEF Leave, preemption_enable
    <3>2. s_preemption_disabled' \in Nat
      BY <1>1, <1>10 DEF Leave, preemption_enable
    <3> QED
      BY <3>1, <3>2 DEF Counters
  <2> QED
    BY <1>4, <1>5, <1>10, <2>1 DEF Leave
<1>11. ASSUME NEW t \in Thread, PendingTick(t) \/ Park(t) PROVE TypeOK'
  <2>1. cpu = t /\ pc[t] # "swap" /\ current = t
    BY <1>11 DEF PendingTick, Park, At, RunsCurrent
  <2>2. \/ /\ scheduler_tick(t) \/ scheduler_schedule(state, ready)
           /\ \E l : SwitchLater(t, l)
        \/ UNCHANGED <<schedVars, cpu, saved, next>>
    BY <1>11, <2>1 DEF PendingTick, Park
  <2>3. SchedTypeOK'
    BY <1>1, <1>2, <1>5, <2>2, SwitchType, ScheduleFacts
  <2>4. Switch
    BY <1>5, <1>8, <2>2, <2>3
  <2> QED
    BY <1>4, <1>5, <1>11, <2>3, <2>4 DEF PendingTick, Park
<1>12. ASSUME NEW t \in Thread, Wait(t) PROVE TypeOK'
  <2>1. SchedTypeOK'
    BY <1>2, <1>12 DEF Wait, SchedTypeOK, ThreadState
  <2>2. Counters
    BY <1>1, <1>12 DEF Wait, Counters
  <2> QED
    BY <1>4, <1>5, <1>12, <2>1, <2>2 DEF Wait
<1>13. ASSUME NEW t \in Thread, Swap(t) PROVE TypeOK'
  <2>1. Switch
    BY <1>1, <1>13 DEF Swap, context_switch_to, Switch
  <2> QED
    BY <1>4, <1>5, <1>13, <2>1 DEF Swap
<1>14. ASSUME NEW t \in Thread, WaitLoop(t) PROVE TypeOK'
  BY <1>4, <1>5, <1>6, <1>14 DEF WaitLoop
<1>15. ASSUME NEW t \in Thread, WakeOne(t) PROVE TypeOK'
  <2>1. SchedTypeOK'
    BY <1>2, <1>15 DEF WakeOne, Wake, scheduler_unblock, SchedTypeOK, ThreadState
  <2> QED
    BY <1>4, <1>5, <1>6, <1>15, <2>1 DEF WakeOne
<1>16. ASSUME NEW t \in Thread, timer_signal_handler(t) PROVE TypeOK'
  <2>1. cpu = t /\ pc[t] # "swap" /\ current = t
    BY <1>16 DEF timer_signal_handler, TickAtSwap, RunsCurrent
  <2>2. SchedTypeOK' /\ Switch
    BY <1>1, <1>5, <1>7, <1>16, <2>1, SwitchType DEF timer_signal_handler
  <2>3. Counters
    BY <1>1, <1>16, Zenon DEF timer_signal_handler, Counters
  <2> QED
    BY <1>4, <1>5, <1>16, <2>2, <2>3 DEF timer_signal_handler
<1>17. ASSUME NEW t \in Thread, SetPreemptionOff(t) \/ SetPreemptionOn(t) \/ timer_start(t)
       PROVE  TypeOK'
  <2>1. Control
    <3>1. /\ preemption_enabled' \in BOOLEAN /\ s_timer_active' \in BOOLEAN
          /\ UNCHANGED <<timeslice_ns, sigalrm>>
      BY <1>1, <1>17, Zenon DEF SetPreemptionOff, SetPreemptionOn, timer_start, timer_stop
    <3>2. itimer' \in {itimer, timeslice_ns, 0}
      BY <1>17 DEF SetPreemptionOff, SetPreemptionOn, timer_start, timer_stop
    <3> QED
      BY <1>1, <3>1, <3>2 DEF Control
  <2> QED
    BY <1>4, <1>5, <1>17, <2>1 DEF SetPreemptionOff, SetPreemptionOn, timer_start
<1>18. ASSUME NEW t \in Thread, NEW ns \in Interval, uthread_set_timeslice(t, ns)
       PROVE  TypeOK'
  <2>1. Control
    BY <1>1, <1>18 DEF uthread_set_timeslice, timer_set_interval, Control
  <2> QED
    BY <1>4, <1>5, <1>6, <1>18, <2>1 DEF uthread_set_timeslice
<1>19. CASE Expire \/ UNCHANGED vars
  BY <1>4, <1>5, <1>19 DEF Expire, vars
<1> QED
  BY <1>9, <1>10, <1>11, <1>12, <1>13, <1>14, <1>15, <1>16, <1>17, <1>18, <1>19,
     PreemptionAssumption DEF Next

(* The CPU runs the current thread after every other step.                 *)
LEMMA RunsStep ==
  ASSUME RunsCurrent, SectionsMasked, SectionsMasked', [Next]_vars, ~TickAtSwap
  PROVE  RunsCurrent'
<1>1. /\ SchedTypeOK /\ saved \in [Thread -> Thread] /\ next \in [Thread -> Thread \cup {Idle}]
      /\ pc \in [Thread -> PC] /\ cpu \in Thread \cup {Idle} /\ current \in Thread \cup {Idle}
      /\ \A u \in Thread : saved[u] = u
      /\ \A u \in Thread : pc[u] = "swap" => cpu = u /\ next[u] = current
      /\ cpu \in Thread /\ pc[cpu] # "swap" => current = cpu
  BY DEF RunsCurrent, TypeOK, SchedTypeOK, ContextOwn
<1>2. TypeOK'
  BY TypeStep
<1>3. current' \in Thread \cup {Idle}
  BY <1>2 DEF TypeOK, SchedTypeOK
<1>4. ASSUME NEW t \in Thread, cpu = t, pc[t] # "swap", NEW l \in PC \ {"swap"},
             Goto(t, l), UNCHANGED <<current, cpu, saved, next>>
      PROVE  RunsCurrent'
  <2>1. \A u \in Thread : pc'[u] # "swap"
    BY <1>1, <1>4 DEF Goto
  <2> QED
    BY <1>1, <1>2, <1>4, <2>1 DEF RunsCurrent, ContextOwn
<1>5. ASSUME NEW t \in Thread, cpu = t, pc[t] # "swap", SwitchNow(t),
             UNCHANGED pc \/ \E l \in PC \ {"swap"} : Goto(t, l)
      PROVE  RunsCurrent'
  <2>1. current = t
    BY <1>1, <1>5
  <2>2. \A u \in Thread : pc'[u] # "swap"
    BY <1>1, <1>5 DEF Goto
  <2>3. \A u \in Thread : saved'[u] = u
    BY <1>1, <1>5, <2>1 DEF SwitchNow, context_switch_to
  <2>4. cpu' = current'
    BY <1>1, <1>3, <1>5, <2>1 DEF SwitchNow, context_switch_to
  <2> QED
    BY <1>2, <2>2, <2>3, <2>4 DEF RunsCurrent, ContextOwn
<1>6. ASSUME NEW t \in Thread, cpu = t, pc[t] # "swap", NEW l \in PC \ {"swap"},
             SwitchLater(t, l)
      PROVE  RunsCurrent'
  <2>1. /\ current = t /\ UNCHANGED <<saved, cpu>> /\ next'[t] = current'
        /\ \A u \in Thread : u # t => pc'[u] = pc[u] /\ pc[u] # "swap"
        /\ pc'[t] # "swap" => current' = current
    BY <1>1, <1>6 DEF SwitchLater, Goto
  <2> QED
    BY <1>1, <1>2, <1>6, <2>1 DEF RunsCurrent, ContextOwn
<1>7. ASSUME NEW t \in Thread, Swap(t)
      PROVE  RunsCurrent'
  <2>1. /\ cpu = t /\ pc[t] = "swap" /\ next[t] = current /\ UNCHANGED current
        /\ saved' = [saved EXCEPT ![t] = t]
        /\ cpu' = IF next[t] = Idle THEN Idle ELSE saved[next[t]]
        /\ pc' = [pc EXCEPT ![t] = resume[t]] /\ resume[t] # "swap"
    BY <1>1, <1>7 DEF Swap, At, Goto, context_switch_to, schedVars, SectionsMasked
  <2>2. cpu' = current' /\ \A u \in Thread : saved'[u] = u /\ pc'[u] # "swap"
    BY <1>1, <2>1
  <2> QED
    BY <1>2, <2>2 DEF RunsCurrent, ContextOwn
<1>8. ASSUME NEW t \in Thread, Yield(t) \/ Exit(t) PROVE RunsCurrent'
  <2>1. /\ cpu = t /\ pc[t] # "swap" /\ SwitchNow(t)
        /\ \E l \in PC \ {"swap"} : Goto(t, l)
    BY <1>8 DEF Yield, Exit, At, PC
  <2> QED
    BY <1>5, <2>1
<1>9. ASSUME NEW t \in Thread, Leave(t) PROVE RunsCurrent'
  <2>1. \E l \in PC \ {"swap"} : Goto(t, l)
    BY <1>9, EnableFacts DEF Leave, Unmasked
  <2> QED
    BY <1>4, <1>9, <2>1 DEF Leave, At, schedVars
<1>10. ASSUME NEW t \in Thread, PendingTick(t) \/ Park(t) PROVE RunsCurrent'
  <2>1. /\ cpu = t /\ pc[t] # "swap"
        /\ \E l \in {"user", "park", "woken"} :
             \/ SwitchLater(t, l)
             \/ Goto(t, l) /\ UNCHANGED <<current, cpu, saved, next>>
    BY <1>10 DEF PendingTick, Park, At, SectionsMasked, schedVars
  <2> QED
    BY <1>4, <1>6, <2>1 DEF PC
<1>11. ASSUME NEW t \in Thread, Wait(t) \/ WaitLoop(t) \/ WakeOne(t) PROVE RunsCurrent'
  <2>1. /\ cpu = t /\ pc[t] # "swap" /\ UNCHANGED <<current, cpu, saved, next>>
        /\ \E l \in {"pending", "park", "yielding"} : Goto(t, l)
    BY <1>11 DEF Wait, WaitLoop, WakeOne, Wake, scheduler_unblock, At, schedVars, switchVars
  <2> QED
    BY <1>4, <2>1 DEF PC
<1>12. CASE UNCHANGED <<current, cpu, saved, next, pc>>
  BY <1>1, <1>2, <1>12 DEF RunsCurrent, ContextOwn
<1>13. ASSUME NEW t \in Thread, timer_signal_handler(t) PROVE RunsCurrent'
  <2>1. /\ cpu = t /\ pc[t] # "swap" /\ UNCHANGED pc
        /\ SwitchNow(t) \/ UNCHANGED <<schedVars, saved, cpu, next>>
    BY <1>13 DEF timer_signal_handler, TickAtSwap
  <2> QED
    BY <1>5, <1>12, <2>1 DEF schedVars
<1>14. ASSUME NEW t \in Thread, SetPreemptionOn(t) \/ timer_start(t) PROVE RunsCurrent'
  <2>1. /\ cpu = t /\ pc[t] # "swap" /\ UNCHANGED <<current, cpu, saved, next>>
        /\ \E l \in InStart \cup {"user"} : Goto(t, l)
    BY <1>14 DEF SetPreemptionOn, timer_start, At, schedVars, switchVars, InStart
  <2> QED
    BY <1>4, <2>1 DEF PC, InStart
<1>15. ASSUME NEW t \in Thread, NEW ns \in Interval, uthread_set_timeslice(t, ns)
       PROVE  RunsCurrent'
  <2>1. /\ cpu = t /\ pc[t] # "swap" /\ UNCHANGED <<current, cpu, saved, next>>
        /\ Goto(t, "yielding")
    BY <1>15 DEF uthread_set_timeslice, At, schedVars, switchVars
  <2> QED
    BY <1>4, <2>1 DEF PC
<1>16. CASE Expire \/ UNCHANGED vars \/ \E t \in Thread : SetPreemptionOff(t)
  BY <1>12, <1>16 DEF Expire, SetPreemptionOff, vars, schedVars, switchVars
<1> QED
  BY <1>7, <1>8, <1>9, <1>10, <1>11, <1>13, <1>14, <1>15, <1>16, PreemptionAssumption
  DEF Next

(* A program starts with every thread in its own context.                  *)
LEMMA ContextsStartOwn == Init => RunsCurrent
<1> SUFFICES ASSUME Init PROVE RunsCurrent
  OBVIOUS
<1>1. SchedTypeOK /\ current \in Thread
  BY DEF Init, SchedInit, SchedTypeOK, ThreadState
<1>2. /\ s_preemption_disabled \in Nat /\ itimer \in Interval \cup {0}
      /\ cpu \in Thread \cup {Idle} /\ saved \in [Thread -> Thread]
      /\ next \in [Thread -> Thread \cup {Idle}] /\ resume \in [Thread -> PC]
      /\ pc \in [Thread -> PC] /\ masked \in [Thread -> BOOLEAN]
  BY <1>1 DEF Init, PC
<1>3. TypeOK
  BY <1>1, <1>2 DEF Init, TypeOK
<1> QED
  BY <1>1, <1>3 DEF Init, RunsCurrent, ContextOwn

(* At first every thread's execution is in its own context and the CPU     *)
(* runs the current thread, and no step changes that but a tick that finds *)
(* scheduler_schedule() between its choice of the next thread and its      *)
(* swapcontext.  In particular a tick in a wait loop before its            *)
(* scheduler_schedule(), and one made up for in preemption_enable(), do no *)
(* harm to contexts.                                                       *)
THEOREM ContextsLostOnlyAtSwap ==
  Spec => RunsCurrent /\ [][RunsCurrent => RunsCurrent' \/ TickAtSwap]_vars
<1>1. Init => SectionsMasked
  BY DEF Init, SectionsMasked, PC
<1>2. SectionsMasked /\ [Next]_vars =>
        SectionsMasked' /\ [RunsCurrent => RunsCurrent' \/ TickAtSwap]_vars
  BY SectionsStep, RunsStep
<1> QED
  BY <1>1, <1>2, ContextsStartOwn, PTL DEF Spec

-----------------------------------------------------------------------------
(* The timer and its flags, in a program where one thread controls them.   *)

(* A step that stays out of timer_start and leaves the timer alone.        *)
LEMMA TimerStay ==
  ASSUME TimerInv, SectionsMasked, UNCHANGED controlVars,
         \/ UNCHANGED pc
         \/ \E t \in Thread, l \in PC \ InStart : Goto(t, l) /\ pc[t] \notin InStart
  PROVE  TimerInv'
<1>1. \A u \in Thread : \/ pc'[u] = pc[u]
                        \/ pc[u] \notin InStart /\ pc'[u] \notin InStart
  BY DEF Goto, SectionsMasked
<1> QED
  BY <1>1 DEF TimerInv, controlVars, InStart

(* Whatever the ticks preempt, the timer stays in step with its flags.     *)
LEMMA TimerStep ==
  ASSUME \A t, u \in Controllers : t = u, TimerInv, SectionsMasked, [Next]_vars
  PROVE  TimerInv'
<1>1. /\ pc \in [Thread -> PC] /\ s_timer_active \in BOOLEAN /\ preemption_enabled \in BOOLEAN
      /\ Controllers \subseteq Thread
  BY PreemptionAssumption DEF SectionsMasked, TimerInv
<1>2. ASSUME NEW t \in Controllers, NEW u \in Thread, pc[u] \in InStart PROVE u = t
  BY <1>2 DEF TimerInv
<1>3. ASSUME NEW t \in Controllers, pc[t] \notin InStart
      PROVE  \A u \in Thread : pc[u] \notin InStart
  BY <1>2, <1>3
<1>4. ASSUME NEW t \in Thread,
             \/ Yield(t) \/ Exit(t) \/ Leave(t) \/ PendingTick(t) \/ Wait(t) \/ Park(t)
             \/ Swap(t) \/ WaitLoop(t) \/ WakeOne(t) \/ timer_signal_handler(t)
      PROVE  TimerInv'
  <2>1. UNCHANGED controlVars
    BY <1>4 DEF Yield, Exit, Leave, PendingTick, Wait, Park, Swap, WaitLoop, WakeOne,
                timer_signal_handler
  <2>2. CASE Leave(t)
    <3>1. \E l \in PC \ InStart : Goto(t, l)
      BY <2>2, EnableFacts DEF Leave, Unmasked
    <3> QED
      BY <2>1, <2>2, <3>1, TimerStay DEF Leave, At, InStart
  <2>3. CASE PendingTick(t) \/ Park(t)
    <3>1. PICK l \in {"user", "park", "woken"} : SwitchLater(t, l) \/ Goto(t, l)
      BY <2>3 DEF PendingTick, Park, SectionsMasked
    <3>2. \E l2 \in {l, "swap"} : Goto(t, l2)
      BY <3>1, LaterFacts
    <3> QED
      BY <2>1, <2>3, <3>2, TimerStay DEF PendingTick, Park, At, InStart, PC
  <2>4. CASE Swap(t)
    BY <2>1, <2>4, TimerStay DEF Swap, At, InStart, PC, SectionsMasked
  <2>5. CASE timer_signal_handler(t)
    BY <2>1, <2>5, TimerStay DEF timer_signal_handler
  <2>6. CASE Yield(t) \/ Exit(t) \/ Wait(t) \/ WaitLoop(t) \/ WakeOne(t)
    <3>1. /\ pc[t] \notin InStart
          /\ \E l \in {"yielding", "gone", "pending", "park"} : Goto(t, l)
      BY <2>6 DEF Yield, Exit, Wait, WaitLoop, WakeOne, At, InStart
    <3> QED
      BY <2>1, <3>1, TimerStay DEF PC, InStart
  <2> QED
    BY <1>4, <2>2, <2>3, <2>4, <2>5, <2>6
<1>5. ASSUME NEW t \in Controllers, SetPreemptionOff(t) PROVE TimerInv'
  <2>1. /\ \A u \in Thread : pc'[u] = pc[u] /\ pc[u] \notin InStart
        /\ preemption_enabled' = FALSE /\ s_timer_active' = FALSE
        /\ itimer' = IF s_timer_active THEN 0 ELSE itimer
    BY <1>3, <1>5 DEF SetPreemptionOff, At, timer_stop, InStart
  <2>2. itimer' = 0
    BY <1>1, <2>1 DEF TimerInv, InStart
  <2> QED
    BY <2>1, <2>2 DEF TimerInv, InStart
<1>6. ASSUME NEW t \in Controllers, SetPreemptionOn(t) PROVE TimerInv'
  <2>1. /\ \A u \in Thread : pc[u] \notin InStart
        /\ \A u \in Thread : pc'[u] = IF u = t THEN "enabling" ELSE pc[u]
        /\ preemption_enabled' = TRUE
        /\ UNCHANGED <<s_timer_active, itimer, timeslice_ns>>
    BY <1>1, <1>3, <1>6 DEF SetPreemptionOn, At, Goto, InStart
  <2> QED
    BY <1>1, <2>1 DEF TimerInv, InStart
<1>7. ASSUME NEW t \in Controllers, timer_start(t) PROVE TimerInv'
  <2>1. /\ \A u \in Thread : u # t => pc[u] \notin InStart
        /\ UNCHANGED <<preemption_enabled, timeslice_ns>>
    BY <1>2, <1>7 DEF timer_start
  <2>2. CASE /\ pc[t] = "enabling"
             /\ pc' = [pc EXCEPT ![t] = IF s_timer_active THEN "user" ELSE "arming"]
             /\ UNCHANGED <<itimer, s_timer_active>>
    <3>1. \A u \in Thread : pc'[u] = IF u = t THEN IF s_timer_active THEN "user" ELSE "arming"
                                     ELSE pc[u]
      BY <1>1, <2>2
    <3>2. /\ preemption_enabled = TRUE
          /\ itimer = IF s_timer_active THEN timeslice_ns ELSE 0
      BY <1>1, <2>1, <2>2 DEF TimerInv, InStart
    <3> QED
      BY <1>1, <2>1, <2>2, <3>1, <3>2 DEF TimerInv, InStart
  <2>3. CASE /\ pc[t] = "arming" /\ pc' = [pc EXCEPT ![t] = "armed"]
             /\ itimer' = timeslice_ns /\ UNCHANGED s_timer_active
    <3>1. \A u \in Thread : pc'[u] = IF u = t THEN "armed" ELSE pc[u]
      BY <1>1, <2>3
    <3> QED
      BY <1>1, <2>1, <2>3, <3>1 DEF TimerInv, InStart
  <2>4. CASE /\ pc[t] = "armed" /\ pc' = [pc EXCEPT ![t] = "user"]
             /\ s_timer_active' = TRUE /\ UNCHANGED itimer
    <3>1. \A u \in Thread : pc'[u] = IF u = t THEN "user" ELSE pc[u]
      BY <1>1, <2>4
    <3>2. preemption_enabled = TRUE /\ itimer = timeslice_ns
      BY <1>1, <2>4 DEF TimerInv, InStart
    <3> QED
      BY <1>1, <2>1, <2>4, <3>1, <3>2 DEF TimerInv, InStart
  <2> QED
    BY <1>7, <2>2, <2>3, <2>4 DEF timer_start, At, Goto
<1>8. ASSUME NEW t \in Controllers, NEW ns \in Interval, uthread_set_timeslice(t, ns)
      PROVE  TimerInv'
  <2>1. /\ \A u \in Thread : pc[u] \notin InStart
        /\ \A u \in Thread : pc'[u] = IF u = t THEN "yielding" ELSE pc[u]
        /\ timeslice_ns' = ns /\ itimer' = IF s_timer_active THEN ns ELSE itimer
        /\ UNCHANGED <<s_timer_active, preemption_enabled>>
    BY <1>1, <1>3, <1>8 DEF uthread_set_timeslice, timer_set_interval, At, Goto, InStart
  <2> QED
    BY <1>1, <2>1 DEF TimerInv, InStart
<1>9. CASE Expire \/ UNCHANGED vars
  BY <1>9, TimerStay DEF Expire, vars
<1> QED
  BY <1>4, <1>5, <1>6, <1>7, <1>8, <1>9 DEF Next

(* Outside timer_start the timer runs exactly when preemption is switched  *)
(* on, and with the timeslice last set, if one thread controls it.         *)
THEOREM TimerInStep ==
  ASSUME \A t, u \in Controllers : t = u
  PROVE  Spec => []TimerAgrees
<1>1. Init => SectionsMasked /\ TimerInv
  BY DEF Init, SectionsMasked, TimerInv, PC, InStart
<1>2. SectionsMasked /\ TimerInv /\ [Next]_vars => SectionsMasked' /\ TimerInv'
  BY SectionsStep, TimerStep
<1>3. TimerInv => TimerAgrees
  BY DEF TimerInv, TimerAgrees, InStart
<1> QED
  BY <1>1, <1>2, <1>3, PTL DEF Spec
=============================================================================
