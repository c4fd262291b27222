SPECIFICATION HeapSpec
CONSTANTS
  Tasks = {0, 1}
  KERNEL = 0
  Sizes = {3, 4}
  ALIGN = 4
  START = 6
  END = 20
  REGISTER_SPACE = 64
  MAX_GRANTS = 4
INVARIANTS
  HeapTypeOK
  InHeap
  NoOverlap
  PanicOnlyWhenFull
CHECK_DEADLOCK FALSE
