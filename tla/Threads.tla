------------------------------- MODULE Threads -------------------------------
(***************************************************************************)
(* What scheduler.c and every scheduling policy share: the threads of the  *)
(* program, the thread that has the CPU, and the state field of a thread   *)
(* (uthread_state_t).                                                      *)
(***************************************************************************)

CONSTANTS Thread, \* the threads of the program, all created
          Idle    \* &g_scheduler.idle_thread

ASSUME IdleAssumption == Idle \notin Thread

VARIABLES current, \* g_scheduler.current
          state    \* thread->state

ThreadState == {"READY", "RUNNING", "BLOCKED", "TERMINATED"}
=============================================================================
