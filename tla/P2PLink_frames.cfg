SPECIFICATION FairSpec
CONSTANTS
  FifoSize = 4
  MaxPacket = 4
  IDs = {0, 1}
  Lengths = {2, 3}
  Punctual = TRUE
  NULL = NULL
INVARIANTS TypeOK StopsTell
PROPERTIES FrameChannelSpec SenderReturns
