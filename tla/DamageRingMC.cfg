SPECIFICATION RingSpec
CONSTANTS
  Tiles = {p, q}
  LEN = 3
  Length = 3
  Forced = {2, 5}
INVARIANT Fresh
CHECK_DEADLOCK FALSE
