SPECIFICATION Spec
CONSTANTS
  Thread = {t1, t2}
  Idle = Idle
  Slice = 1
SYMMETRY Symmetry
INVARIANT RunnableKept
CHECK_DEADLOCK FALSE
