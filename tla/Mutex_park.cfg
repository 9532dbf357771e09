SPECIFICATION Spec
CONSTANTS
  Thread = {t1, t2}
  Idle = Idle
  None = None
  MutexTypes = {"NORMAL"}
  InitModes = {"init"}
  ParkTicks = TRUE
  MaxDepth = 1
SYMMETRY Symmetry
INVARIANT OneQueue
CHECK_DEADLOCK FALSE
