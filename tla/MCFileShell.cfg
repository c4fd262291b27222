SPECIFICATION Spec
CONSTANTS
  MAX_FILES = 4
  FRAMES = 2
  BLOCK = 2
  Paths <- MCPaths
  Texts <- MCTexts
  README <- MCReadme
  MAX_CREATED = 3
INVARIANTS
  FilesSound
PROPERTIES
  ImplementsFileStore
  KprintIsReadBack
  TruncatedIsGone
