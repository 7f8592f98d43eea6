SPECIFICATION FairSynchSpec
CONSTANTS
  t1 = t1
  t2 = t2
  t3 = t3
  Thread = {t1, t2, t3}
  Boot = t1
  lbolt = lbolt
  s1 = s1
  l1 = l1
  l2 = l2
  Sem = {s1}
  Lock = {l1, l2}
  Addr = {lbolt, s1, l1, l2}
  Lbolt = lbolt
  NULL = NULL
  HZ = 1
  MaxSecs = 1
  MaxCount = 2
  initial_count <- Empty
INVARIANTS
  SynchTypeOK
  NoLostWakeup
  MutualExclusion
PROPERTIES
  ImplementsAtomicFairly
