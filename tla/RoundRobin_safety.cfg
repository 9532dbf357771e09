SPECIFICATION FairSpec
CONSTANTS
  Thread = {t1, t2, t3, t4}
  Idle = Idle
  Slice = 2
PROPERTY NoOvertaking
PROPERTY KeptUnlessReady
PROPERTY ImplementsScheduler
PROPERTY Served
CHECK_DEADLOCK FALSE
