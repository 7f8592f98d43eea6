SPECIFICATION SfsVnodesSpec
CONSTANTS
  t1 = t1
  t2 = t2
  Thread = {t1, t2}
  MaxVnodes = 2
INVARIANT
  KilledUnreferenced
