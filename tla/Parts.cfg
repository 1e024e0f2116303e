SPECIFICATION Spec
CONSTANTS
  NULL = NULL
  TxSize = 3
  RxSize = 4
  TxLengths = {1, 2, 4}
  FramesSent <- SomeFrames
  MaxPacketLen = 6
  MaxFaults = 2
  Differences = {1}
  Broadcasts = {1, 3, 4}
  Calls = {1}
  SilentCalls = {2}
  Probes <- SomeProbes
  MaxFrames = 2
  TransactionQueue = 3
  Patience = 2
  ReadMotors = {1}
  RawPositions = {0, 5}
  ReadIdleValues = {1, 2}
  ReadMiddle = 2
  Base = 4
  MaxFailures = 3
  MaxReads = 1
  GoalMotors = {5}
  Goals = {2}
  GoalIdleValues = {0, 1}
  GoalMiddle = 1
  GoalWidth = 3
  Lifted = 2
  JobQueue = 2
  MaxMessages = 1
  UserButtons = {1, 2}
  Adjusted = {1}
  CalibrationValues = {"default", "new"}
  AheadOfP1 = 3
  AheadOfP2 = 1
  Divider = 3
  MaxTries = 2
  MaxTime = 4
  MaxRequests = 2
  EqualLimit = 2
  WatchInterval = 4
INVARIANTS TypeOK FramesFollowNoise WrongByteIsCaught BytesInOrder RingIsServed DeliveredAsIntended TransactionsEnd PositionsAreRecent ReadsBackWhatWasMeant ThemesAreWhole EdgesAreReported SyncedWithinPing ResetAfterRecovery FilterIsExact NothingIsRefused PeripheralsAreUsable
PROPERTIES CalibrationsAreWhole
