SPECIFICATION VfsSpec
CONSTANTS
  t1 = t1
  t2 = t2
  VfsThread = {t1, t2}
  FirstThread = t1
  EmuFs = {}
  Disk = {lhd0}
  PlainDev = {}
  lhd0 = lhd0
  NoVnode = NoVnode
  NoThread = NoThread
  MaxOpen = 1
  MaxOrphans = 1
INVARIANTS
  VfsTypeOK
  RefcountExact
  FsInUseIsMounted
