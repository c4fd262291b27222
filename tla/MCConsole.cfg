SPECIFICATION Spec
CONSTANTS
  SIZE = 3
  CLIP = 2
  LIMIT = 2
  HISTORY = 2
  COLS = 3
  MAX_OFFSET = 2
  TTYS = 2
  Contents <- MCContents
  Completions <- MCCompletions
INVARIANTS
  InputSound
  ShownIsLine
  EditAtEnd
  ModesAgree
