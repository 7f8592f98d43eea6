SPECIFICATION SfsSpec
CONSTANTS
  NBlocks = 7
  NDIRECT = 2
  DBPERIDB = 1
  foo = foo
  bar = bar
  Name = {foo, bar}
  dat = dat
  Datum = {dat}
  WriteAt = {1, 2}
  TruncateTo = {0}
  MaxHeld = 1
  MaxLost = 1
SYMMETRY NameSymmetry
CHECK_DEADLOCK FALSE
INVARIANTS
  
  
  BlocksAndLinksExact
  
PROPERTIES
  ImplementsFiles
