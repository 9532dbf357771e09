SPECIFICATION CondSpec
CONSTANTS
  Thread = {t1, t2, t3}
  Idle = Idle
  None = None
  MutexTypes = {"NORMAL", "ERRORCHECK", "RECURSIVE"}
  InitModes = {"init", "zero"}
  ParkTicks = FALSE
  MaxDepth = 2
  TimedWaits = TRUE
  CondModes = {"init", "static", "zero"}
SYMMETRY Symmetry
INVARIANT MutexQueueServed
INVARIANT SleepersSignallable
CHECK_DEADLOCK FALSE
