SPECIFICATION FairSpec
CONSTANTS
  heartBeat = heartBeat
  timeout = timeout
  pause = pause
  NULL = NULL
  Clients = {heartBeat, pause}
  Interval <- MCInterval
  OneShot = {pause}
  Posting = {heartBeat}
  Registers <- MCRegisters
  AtStart = {heartBeat}
  FromInterrupts = {pause}
  FromMain = {}
  Restarted = {}
  Cancelled = {}
  MaxHandles = 2
  MinOnRegister = 1
  MinOnTrigger = 2
  MaxCount = 3
  MaxInLoop = 1
INVARIANT TypeOK
PROPERTY DueIsCalled
