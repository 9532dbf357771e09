SPECIFICATION Spec
CONSTANTS
  Thread = {t1, t2, t3, t4}
  Idle = Idle
  Levels = 3
SYMMETRY Symmetry
INVARIANT BitmapExact
PROPERTY HighestFirst
PROPERTY RoundRobinWithinLevel
PROPERTY ImplementsScheduler
CHECK_DEADLOCK FALSE
