SPECIFICATION FairSpec
CONSTANTS
  Thread = {t1, t2, t3}
  Idle = Idle
  InitialValues = {0, 1, 5}
  Word = 6
  MaxSupply = 3
  TimedWaits = TRUE
  ParkTicks = FALSE
INVARIANT UnitsConserved
INVARIANT UnitsPromised
PROPERTY PostDelivered
CHECK_DEADLOCK FALSE
