SPECIFICATION Spec
CONSTANTS
  Thread = {t1, t2, t3}
  Idle = Idle
  Controllers = {t1}
  Interval = {1, 2}
SYMMETRY Symmetry
INVARIANT CriticalMasked
INVARIANT TimerAgrees
CHECK_DEADLOCK FALSE
