SPECIFICATION FairIntSpec
CONSTANTS
  t1 = t1
  t2 = t2
  IThread = {t1, t2}
  Main = t1
  Cards <- MCCards
  Drivers <- MCDrivers
  LB_CONTROLLER_SLOT = 3
  MaxDuds = 1
  MaxStrays = 1
  NoThread = NoThread
INVARIANTS
  LevelsTrue
PROPERTIES
  InterruptServed
CHECK_DEADLOCK FALSE
