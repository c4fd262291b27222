SPECIFICATION Spec
CONSTANTS
  BLOCK_SIZE = 32
  BLOCKS_PER_BUCKET = 4
  KERNEL_BASE = 128
  HEAP_SIZE = 64
  BOOT_TABLES = 1
  ADDRESS_SPACE = 512
  Machines <- MCMachines
  MAX_HOLDERS = 2
  MAX_USED = 24
INVARIANTS
  TypeOK
  CountMatchesBitmap
  NoDoubleGrant
  ImageNeverGranted
  HeapClearOfBitmap
CHECK_DEADLOCK FALSE
