SPECIFICATION IntSpec
CONSTANTS
  t1 = t1
  t2 = t2
  IThread = {t1, t2}
  Main = t1
  Cards <- MCCards
  Drivers <- MCDrivers
  LB_CONTROLLER_SLOT = 3
  MaxDuds = 1
  MaxStrays = 2
  NoThread = NoThread
INVARIANT
  TooManyDudsPanic
CHECK_DEADLOCK FALSE
