SPECIFICATION Spec
CONSTANTS
  Thread = {t1, t2, t3}
  Idle = Idle
  Nices <- MCNices
  Granularity = 1
  Boot = 1
  MaxStep = 1
  MaxRan = 2
  MaxVruntime = 4
  Word = 8
SYMMETRY Symmetry
INVARIANT TreeSorted
PROPERTY LowestFirst
PROPERTY TickFair
PROPERTY KeptUnlessReady
PROPERTY ImplementsScheduler
CHECK_DEADLOCK FALSE
