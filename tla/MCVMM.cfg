SPECIFICATION Spec
CONSTANTS
  FRAMES = 8
  KERNEL_TABLES = 1
  Tables = {768, 769}
  Slots = {0}
  Values = {0, 1}
  LEVELS = {0, 3}
INVARIANTS
  MemorySound
  OneWriter
PROPERTIES
  OwnPagesStable
CHECK_DEADLOCK FALSE
