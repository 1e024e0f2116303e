SPECIFICATION Spec
CONSTANTS
  FifoSize = 3
  MaxPacket = 4
  IDs = {0, 1}
  Lengths = {2, 3}
  Punctual = TRUE
  NULL = NULL
INVARIANT StopIsAhead
