SPECIFICATION Spec
CONSTANTS
  Peers = {p, q}
  NOBODY = NOBODY
  WINDOW = 2
  MAX_SYNS = 2
  MAX_SEND = 2
  MAX_CONNS = 4
  MAX_CONNECTS = 1
INVARIANTS
  ListSound
  OnePerPeer
  SendsInBounds
SYMMETRY MCSymmetry
CHECK_DEADLOCK FALSE
