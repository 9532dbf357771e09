SPECIFICATION Spec
CONSTANTS
  Thread = {t1, t2, t3, t4}
  Idle = Idle
  None = None
  MaxThreads = 3
  Programs = {"owner", "free"}
SYMMETRY Symmetry
INVARIANT JoinerWoken
INVARIANT TableExact
INVARIANT UsedAlive
CHECK_DEADLOCK FALSE
