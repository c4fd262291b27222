SPECIFICATION Spec
CONSTANTS
  SLOTS = 2
  FIT = 1
  SECTOR = 2
  REGION = 1
  Names = {a, b}
  SlashNames = {p}
  Texts <- MCTexts
  MAX_LENGTH = 4
  MAX_RESTARTS = 1
INVARIANTS
  RegistryFits
SYMMETRY MCSymmetry
CHECK_DEADLOCK FALSE
