SPECIFICATION DevSpec
CONSTANTS
  w1 = w1
  w2 = w2
  k1 = k1
  b = b
  r1 = r1
  t1 = t1
  t2 = t2
  Writer = {w1, w2}
  Reader = {r1}
  Printer = {k1}
  Boot = b
  Handler = Handler
  NULL = NULL
  NoData = NoData
  Text <- MCText
  Keys <- TwoKeys
  Want = 3
  MaxPolled = 1
  DELAYBUFSIZE = 2
  LhdThread = {t1, t2}
  Blocks = 2
  Requests <- MCRequests
  EmuThread = {t1, t2}
  h0 = h0
  h1 = h1
  h2 = h2
  v0 = v0
  v1 = v1
  v2 = v2
  Handle = {h0, h1, h2}
  RootHandle = h0
  Ev = {v0, v1, v2}
  RootEv = v0
  CloseRetries = 1
  MaxResid = 2
  EmuCalls = 2
  Nobody = Nobody
INVARIANTS
  CardsAgree
  OutputExact
  HandlesExact
PROPERTIES
  ImplementsAtomicDisk
  DriversReturn
CHECK_DEADLOCK FALSE
