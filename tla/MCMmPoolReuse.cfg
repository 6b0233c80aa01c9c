\* A block two objects share, released by one of them.
CONSTANTS
  Objs    = {o1, o2}
  Values  = {zero, a}
  Zero    = zero
  NoData  = NoData
  Lost    = Lost
  MM_POOL_BUFF   = 2
  MM_POOL_EXPAND = 2
  MemSize = 4
  MaxSize = 4
SYMMETRY Symmetry
SPECIFICATION SharingSpec
INVARIANTS NotFreed
CHECK_DEADLOCK FALSE
