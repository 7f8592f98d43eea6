SPECIFICATION TabSpec
CONSTANTS
  InitialSlots = 4
  KeptMax = 16
  MaxThreads = 4
  MaxDead = 7
INVARIANT
  ForkPreallocates
