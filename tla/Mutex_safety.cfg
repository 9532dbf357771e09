SPECIFICATION FairSpec
CONSTANTS
  Thread = {t1, t2, t3}
  Idle = Idle
  None = None
  MutexTypes = {"NORMAL", "RECURSIVE", "ERRORCHECK"}
  InitModes = {"init", "zero"}
  ParkTicks = FALSE
  MaxDepth = 2
INVARIANT TypeOK
INVARIANT MutualExclusion
INVARIANT NoLostWakeup
INVARIANT Ownership
INVARIANT QueueDiscipline
PROPERTY ImplementsLock
PROPERTY HandOver
CHECK_DEADLOCK FALSE
