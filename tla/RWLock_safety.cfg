SPECIFICATION FairSpec
CONSTANTS
  Thread = {t1, t2, t3, t4}
  Idle = Idle
  None = None
  MaxReads = 2
  ParkTicks = FALSE
INVARIANT Exclusion
INVARIANT PendingExact
INVARIANT NoLostWakeup
PROPERTY WriterServed
CHECK_DEADLOCK FALSE
