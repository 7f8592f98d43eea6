SPECIFICATION KernelSpec
CONSTANTS
  e1 = e1
  e2 = e2
  Elem = {e1, e2}
  Junk = Junk
  CreateSize = 2
  MaxSize = 8
  InitialSlots = 2
  KeptMax = 4
  MaxThreads = 5
  MaxDead = 7
  BLOCKSIZE = 3
  ZEROS = 1
  MaxPos = 10
  PAGE_SIZE = 8
  sizes <- MCsizes
  LARGEST_SUBPAGE_SIZE = 4
  NPAGEREFS = 2
  RamPages = 3
  Requests = {1, 3, 9}
  NBITS = 4
  BITS_PER_WORD = 3
  Guys = {e1, e2}
  ShrinkAbove = 3
  MaxGuys = 4
  WORD = 2
  UINT = 32
  degrees <- MCdegrees
  seps <- MCseps
  BREAKS <- MCBREAKS
  ROUNDS = 1
  Arrays = {"A", "B"}
  randtbl = "randtbl"
  BITS = 5
  MAXMENUARGS = 3
  cmdtable <- MCcmdtable
  VaddrSpace = 8
  USERTOP = 5
  ZeroBytes = 2
  W = 32
  MULTIPLIER = 12
  MODULUS = 127
  LT_SECOND = 8
  LT_SMALL = 2
  t1 = t1
  t2 = t2
  VThread = {t1, t2}
  PageBytes = 2
  Programs <- MCPrograms
  USERSTACK = 12
  DUMBVM_STACKPAGES = 1
  NUM_TLB = 2
  FreePages = 8
  AddrPages = 32
  NoSpace = NoSpace
  SThread = {t1, t2}
  NoOne = NoOne
  DevNames <- MCDevNames
  VolumeNames <- MCVolumeNames
  NoName = NoName
  NoFs = NoFs
  MaxDevices = 3
INVARIANTS
  KernelTypeOK
  NoOverflow
  TransferAccounted
  HeapConsistent
  ContainersExact
  ProgramMemory
  PanicsAlone
  
  UserMemoryExact
  LibcExact
  CommandsExact
  DriversExact
PROPERTIES
  ImplementsFifo
  ImplementsAllocator
  SystemStops
CHECK_DEADLOCK FALSE
