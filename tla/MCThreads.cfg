SPECIFICATION FairSpec
CONSTANTS
  t1 = t1
  t2 = t2
  t3 = t3
  t4 = t4
  Thread = {t1, t2, t3, t4}
  Boot = t1
  lbolt = lbolt
  a1 = a1
  Addr = {lbolt, a1}
  Lbolt = lbolt
  NULL = NULL
  HZ = 2
  MaxSecs = 1
INVARIANTS
  TypeOK
  OnePlace
  StackInUse
PROPERTIES
  NoOvertaking
  RunnableRuns
  ClocksleepReturns
