----------------------------- MODULE Preemption -----------------------------
(***************************************************************************)
(* How preemption is switched off and on: the nesting counter and the      *)
(* SIGALRM mask of src/src/timer.c, the interval timer and the calls that  *)
(* control it, the signal handler, and the contexts that swapcontext saves *)
(* and restores (src/src/context.c).  The counter is one for the process;  *)
(* the mask belongs to the context and is saved and restored with it.      *)
(* Whether should_preempt() answers true, and whom the scheduler           *)
(* dispatches, is left to Scheduler.                                       *)
(*                                                                         *)
(* pc[t] is the place on the stack of t: "new" at the entry of             *)
(* context_entry_wrapper; "user" in program code; "yielding" in a critical *)
(* section that it must leave with preemption_enable(); "pending" in that  *)
(* preemption_enable(), about to make up for a missed tick; "park" in a    *)
(* wait loop after its preemption_enable(); "swap" in scheduler_schedule() *)
(* between in_scheduler = false and swapcontext; "woken" back from the     *)
(* scheduler_schedule() of a wait loop; "enabling", "arming" and "armed"   *)
(* in uthread_set_preemption(true), at the entry of timer_start, before    *)
(* its setitimer and before its s_timer_active = 1; "gone" after           *)
(* uthread_exit.                                                           *)
(***************************************************************************)
EXTENDS Scheduler, Integers, FiniteSets

CONSTANTS Controllers, \* the threads that control the timer
          Interval     \* the values of timeslice_ns

ASSUME PreemptionAssumption ==
  /\ IsFiniteSet(Thread)
  /\ Controllers \subseteq Thread
  /\ Interval \subseteq Nat \ {0}

VARIABLES s_preemption_disabled,
          s_preempt_pending,
          preemption_enabled,
          s_timer_active,
          timeslice_ns,
          itimer,  \* the interval ITIMER_REAL is armed with, 0 if it is not
          sigalrm, \* the timer expired while SIGALRM was blocked
          masked,  \* SIGALRM is blocked in the context of t
          cpu,     \* the thread on whose stack the CPU runs
          saved,   \* saved[t]: the thread whose execution is in t->context
          next,    \* the local variable of scheduler_schedule on t's stack
          resume,  \* where t goes on after swapcontext
          pc

counterVars == <<s_preemption_disabled, s_preempt_pending>>
controlVars == <<preemption_enabled, s_timer_active, timeslice_ns, itimer>>
switchVars == <<cpu, saved, next, resume>>
vars == <<schedVars, counterVars, controlVars, sigalrm, masked, switchVars, pc>>

InStart == {"enabling", "arming", "armed"}

PC == {"new", "user", "yielding", "pending", "park", "swap", "woken", "gone"}
        \cup InStart

TypeOK ==
  /\ SchedTypeOK
  /\ s_preemption_disabled \in Nat
  /\ s_preempt_pending \in BOOLEAN
  /\ preemption_enabled \in BOOLEAN
  /\ s_timer_active \in BOOLEAN
  /\ timeslice_ns \in Interval
  /\ itimer \in Interval \cup {0}
  /\ sigalrm \in BOOLEAN
  /\ masked \in [Thread -> BOOLEAN]
  /\ cpu \in Thread \cup {Idle}
  /\ saved \in [Thread -> Thread]
  /\ next \in [Thread -> Thread \cup {Idle}]
  /\ resume \in [Thread -> PC]
  /\ pc \in [Thread -> PC]

(* The main thread runs, uthread_init has started the timer; the others    *)
(* were created and have the mask of the critical section of               *)
(* uthread_create.                                                         *)
Init ==
  /\ SchedInit
  /\ s_preemption_disabled = 0
  /\ s_preempt_pending = FALSE
  /\ preemption_enabled = TRUE
  /\ s_timer_active = TRUE
  /\ timeslice_ns \in Interval
  /\ itimer = timeslice_ns
  /\ sigalrm = FALSE
  /\ masked = [t \in Thread |-> t # current]
  /\ cpu = current
  /\ saved = [t \in Thread |-> t]
  /\ next = [t \in Thread |-> Idle]
  /\ resume = [t \in Thread |-> "user"]
  /\ pc = [t \in Thread |-> IF t = current THEN "user" ELSE "new"]

At(t, label) == cpu = t /\ pc[t] = label

Goto(t, label) == pc' = [pc EXCEPT ![t] = label]

-----------------------------------------------------------------------------
(* swapcontext from the thread the scheduler took for the running one to   *)
(* the one it chose: the registers saved are those of stack t.  A context  *)
(* that holds the execution of another thread leads back to frames its     *)
(* stack may have left; what runs then is undefined and is not followed,   *)
(* like a switch to the idle thread.                                       *)
context_switch_to(t, from, to) ==
  /\ saved' = [saved EXCEPT ![from] = t]
  /\ cpu' = IF to # Idle /\ saved[to] = to THEN to ELSE Idle

(* A whole scheduler_schedule() with SIGALRM masked.                       *)
SwitchNow(t) ==
  /\ IF current' = current THEN UNCHANGED <<saved, cpu>>
     ELSE context_switch_to(t, current, current')
  /\ UNCHANGED next

(* scheduler_schedule() up to in_scheduler = false with SIGALRM open: what *)
(* follows is the step Swap, or nothing if the same thread was chosen.     *)
SwitchLater(t, label) ==
  /\ next' = [next EXCEPT ![t] = current']
  /\ resume' = [resume EXCEPT ![t] = label]
  /\ Goto(t, IF current' = current THEN label ELSE "swap")
  /\ UNCHANGED <<saved, cpu>>

(* Mutant: preemption_disable only counts.                                 *)
DisableUnmasked(t) ==
  /\ masked' = masked
  /\ s_preemption_disabled' = s_preemption_disabled + 1

preemption_disable(t) ==
  /\ masked' = [masked EXCEPT ![t] = TRUE]
  /\ s_preemption_disabled' = s_preemption_disabled + 1

(* uthread_yield up to the return of scheduler_yield.                      *)
Yield(t) ==
  /\ At(t, "user")
  /\ preemption_disable(t)
  /\ uthread_yield(t)
  /\ SwitchNow(t)
  /\ Goto(t, "yielding")
  /\ UNCHANGED <<s_preempt_pending, resume, controlVars, sigalrm>>

(* uthread_exit.                                                           *)
Exit(t) ==
  /\ At(t, "user")
  /\ preemption_disable(t)
  /\ uthread_exit(t)
  /\ SwitchNow(t)
  /\ Goto(t, "gone")
  /\ UNCHANGED <<s_preempt_pending, resume, controlVars, sigalrm>>

(* preemption_enable(), called by t; label is where its caller goes on.    *)
(* Only the call that takes the counter to zero unblocks the signal.       *)
preemption_enable(t, label) ==
  IF s_preemption_disabled = 1
    THEN /\ s_preemption_disabled' = 0
         /\ masked' = [masked EXCEPT ![t] = FALSE]
         /\ s_preempt_pending' = FALSE
         /\ Goto(t, IF s_preempt_pending THEN "pending" ELSE label)
         /\ resume' = [resume EXCEPT ![t] = label]
    ELSE /\ s_preemption_disabled' = IF s_preemption_disabled = 0 THEN 0
                                     ELSE s_preemption_disabled - 1
         /\ Goto(t, label)
         /\ UNCHANGED <<masked, s_preempt_pending, resume>>

(* The end of a critical section, or of context_entry_wrapper's preamble.  *)
Leave(t) ==
  /\ At(t, "new") \/ At(t, "yielding")
  /\ preemption_enable(t, "user")
  /\ UNCHANGED <<schedVars, cpu, saved, next, controlVars, sigalrm>>

(* The scheduler_tick() of preemption_enable(), SIGALRM being open.        *)
PendingTick(t) ==
  /\ At(t, "pending")
  /\ \/ /\ preemption_enabled
        /\ scheduler_tick(current)
        /\ SwitchLater(t, resume[t])
     \/ Goto(t, resume[t]) /\ UNCHANGED <<schedVars, saved, cpu, next, resume>>
  /\ UNCHANGED <<counterVars, controlVars, sigalrm, masked>>

(* A wait loop: preemption_disable(), the thread queues itself and calls   *)
(* preemption_enable(), all before the label "park".                       *)
Wait(t) ==
  /\ At(t, "user")
  /\ current = t
  /\ state' = [state EXCEPT ![t] = "BLOCKED"]
  /\ masked' = [masked EXCEPT ![t] = s_preemption_disabled > 0]
  /\ Goto(t, IF s_preemption_disabled = 0 /\ s_preempt_pending
               THEN "pending" ELSE "park")
  /\ resume' = [resume EXCEPT ![t] = "park"]
  /\ s_preempt_pending' = (s_preempt_pending /\ s_preemption_disabled > 0)
  /\ UNCHANGED <<current, ready, s_preemption_disabled, cpu, saved, next,
                 controlVars, sigalrm>>

Park(t) ==
  /\ At(t, "park")
  /\ scheduler_schedule(state, ready)
  /\ SwitchLater(t, "woken")
  /\ UNCHANGED <<counterVars, controlVars, sigalrm, masked>>

Swap(t) ==
  /\ At(t, "swap")
  /\ context_switch_to(t, t, next[t])
  /\ Goto(t, resume[t])
  /\ next' = [next EXCEPT ![t] = Idle]
  /\ resume' = [resume EXCEPT ![t] = "user"]
  /\ UNCHANGED <<schedVars, counterVars, controlVars, sigalrm, masked>>

(* The wait loop goes on in a critical section.                            *)
WaitLoop(t) ==
  /\ At(t, "woken")
  /\ preemption_disable(t)
  /\ Goto(t, "yielding")
  /\ UNCHANGED <<schedVars, s_preempt_pending, switchVars, controlVars, sigalrm>>

(* A critical section that wakes a blocked thread.                         *)
WakeOne(t) ==
  /\ At(t, "user")
  /\ Wake(current)
  /\ preemption_disable(t)
  /\ Goto(t, "yielding")
  /\ UNCHANGED <<s_preempt_pending, switchVars, controlVars, sigalrm>>

-----------------------------------------------------------------------------
(* timer_stop.                                                             *)
timer_stop ==
  /\ itimer' = IF s_timer_active THEN 0 ELSE itimer
  /\ s_timer_active' = FALSE

(* uthread_set_preemption(false).  One step: no tick preempts once the     *)
(* flag is false.                                                          *)
SetPreemptionOff(t) ==
  /\ At(t, "user")
  /\ preemption_enabled' = FALSE
  /\ timer_stop
  /\ UNCHANGED <<schedVars, counterVars, timeslice_ns, sigalrm, masked,
                 switchVars, pc>>

(* uthread_set_preemption(true), which blocks no signal, up to timer_start.*)
SetPreemptionOn(t) ==
  /\ At(t, "user")
  /\ preemption_enabled' = TRUE
  /\ Goto(t, "enabling")
  /\ UNCHANGED <<schedVars, counterVars, s_timer_active, timeslice_ns, itimer,
                 sigalrm, masked, switchVars>>

(* timer_start: the early return, setitimer, s_timer_active = 1.           *)
timer_start(t) ==
  /\ \/ /\ At(t, "enabling")
        /\ Goto(t, IF s_timer_active THEN "user" ELSE "arming")
        /\ UNCHANGED <<itimer, s_timer_active>>
     \/ /\ At(t, "arming")
        /\ Goto(t, "armed")
        /\ itimer' = timeslice_ns
        /\ UNCHANGED s_timer_active
     \/ /\ At(t, "armed")
        /\ Goto(t, "user")
        /\ s_timer_active' = TRUE
        /\ UNCHANGED itimer
  /\ UNCHANGED <<schedVars, counterVars, preemption_enabled, timeslice_ns,
                 sigalrm, masked, switchVars>>

(* Mutant: timer_set_interval does not stop the timer before it starts it, *)
(* and timer_start returns early.                                          *)
SetIntervalRunning(ns) ==
  /\ timeslice_ns' = ns
  /\ UNCHANGED <<itimer, s_timer_active>>

(* timer_set_interval: an active timer is stopped and started again.       *)
timer_set_interval(ns) ==
  /\ timeslice_ns' = ns
  /\ itimer' = IF s_timer_active THEN ns ELSE itimer
  /\ UNCHANGED s_timer_active

(* uthread_set_timeslice up to its preemption_enable().                    *)
uthread_set_timeslice(t, ns) ==
  /\ At(t, "user")
  /\ preemption_disable(t)
  /\ timer_set_interval(ns)
  /\ Goto(t, "yielding")
  /\ UNCHANGED <<schedVars, s_preempt_pending, preemption_enabled, sigalrm,
                 switchVars>>

(* The timer expires while the running context blocks SIGALRM.             *)
Expire ==
  /\ itimer # 0
  /\ cpu \in Thread /\ masked[cpu]
  /\ sigalrm' = TRUE
  /\ UNCHANGED <<schedVars, counterVars, controlVars, masked, switchVars, pc>>

(* SIGALRM on stack t.  Returning from the handler restores the open mask, *)
(* so a thread preempted by it goes on where it was.  A tick at "swap"     *)
(* saves stack t in the context of another thread.                         *)
timer_signal_handler(t) ==
  /\ cpu = t
  /\ ~masked[t]
  /\ itimer # 0 \/ sigalrm
  /\ sigalrm' = FALSE
  /\ \/ /\ s_preemption_disabled > 0
        /\ s_preempt_pending' = TRUE
        /\ UNCHANGED <<schedVars, saved, cpu, next>>
     \/ /\ s_preemption_disabled = 0
        /\ \/ preemption_enabled /\ scheduler_tick(current) /\ SwitchNow(t)
           \/ UNCHANGED <<schedVars, saved, cpu, next>>
        /\ UNCHANGED s_preempt_pending
  /\ UNCHANGED <<s_preemption_disabled, controlVars, masked, resume, pc>>

Next ==
  \/ \E t \in Thread :
       \/ Yield(t) \/ Exit(t) \/ Leave(t) \/ PendingTick(t) \/ Wait(t) \/ Park(t)
       \/ Swap(t) \/ WaitLoop(t) \/ WakeOne(t) \/ timer_signal_handler(t)
  \/ \E t \in Controllers :
       \/ SetPreemptionOff(t) \/ SetPreemptionOn(t) \/ timer_start(t)
       \/ \E ns \in Interval : uthread_set_timeslice(t, ns)
  \/ Expire

Spec == Init /\ [][Next]_vars

-----------------------------------------------------------------------------
(* A critical section is never interrupted: SIGALRM is blocked on the CPU  *)
(* from preemption_disable() until the matching preemption_enable(),       *)
(* whoever ran while the section was switched out and however far the      *)
(* counter has drifted.  The other modules rest on this when they make a   *)
(* critical section one step.                                              *)
CriticalMasked == cpu \in Thread /\ pc[cpu] = "yielding" => masked[cpu]

(* swapcontext saves a thread's execution in that thread's own context.    *)
(* The code breaks this: a tick at "swap" saves it in the context of the   *)
(* thread chosen next.                                                     *)
ContextOwn == \A t \in Thread : saved[t] = t

(* In a program where one thread controls the timer, whatever the ticks    *)
(* preempt in between, outside timer_start the flag, s_timer_active and    *)
(* the timer itself agree, and the timer runs with the timeslice that      *)
(* uthread_get_timeslice reports.  With a second controller they do not:   *)
(* a thread preempted before its s_timer_active = 1 sets it after another  *)
(* has stopped the timer, and no later call starts it.                     *)
TimerAgrees ==
  (\A t \in Thread : pc[t] \notin InStart)
    => /\ s_timer_active = preemption_enabled
       /\ itimer = IF s_timer_active THEN timeslice_ns ELSE 0

(* The inductive invariants behind the properties.                         *)
(* A section that is switched out stays blocked, and no swapcontext comes  *)
(* back into the middle of one.                                            *)
SectionsMasked ==
  /\ pc \in [Thread -> PC]
  /\ masked \in [Thread -> BOOLEAN]
  /\ resume \in [Thread -> {"user", "park", "woken"}]
  /\ \A t \in Thread : pc[t] = "yielding" => masked[t]

(* The CPU runs the current thread, but for the moment before swapcontext  *)
(* in which current is already the thread it will switch to.               *)
RunsCurrent ==
  /\ TypeOK
  /\ ContextOwn
  /\ \A t \in Thread : pc[t] = "swap" => cpu = t /\ next[t] = current
  /\ cpu \in Thread /\ pc[cpu] # "swap" => current = cpu

(* Inside timer_start the flag is set, the timer is armed one step before  *)
(* s_timer_active says so, and nothing else makes the three differ.        *)
TimerInv ==
  /\ s_timer_active \in BOOLEAN /\ preemption_enabled \in BOOLEAN
  /\ \A t \in Thread :
       pc[t] \in InStart => /\ t \in Controllers /\ preemption_enabled
                            /\ pc[t] # "enabling" => ~s_timer_active
                            /\ pc[t] = "armed" => itimer = timeslice_ns
  /\ (\A t \in Thread : pc[t] # "armed")
       => itimer = IF s_timer_active THEN timeslice_ns ELSE 0
  /\ (\A t \in Thread : pc[t] \notin InStart) => s_timer_active = preemption_enabled
=============================================================================
