\* Four objects, two contents, one expansion, which moves the blocks or not.
CONSTANTS
  Objs    = {o1, o2, o3, o4}
  Values  = {zero, a}
  Zero    = zero
  NoData  = NoData
  Lost    = Lost
  MM_POOL_BUFF   = 2
  MM_POOL_EXPAND = 2
  MemSize = 4
  MaxSize = 6
VIEW View
SYMMETRY Symmetry
SPECIFICATION CarefulSpec
INVARIANT Inv
PROPERTY ImplementsStore
CHECK_DEADLOCK TRUE
