SPECIFICATION Spec
CONSTANTS
  heartBeat = heartBeat
  timeout = timeout
  pause = pause
  NULL = NULL
  Clients = {heartBeat, timeout}
  Interval <- MCInterval
  OneShot = {timeout}
  Posting = {heartBeat}
  Registers <- MCRegisters
  AtStart = {}
  FromInterrupts = {timeout}
  FromMain = {heartBeat}
  Restarted = {timeout}
  Cancelled = {timeout}
  MaxHandles = 3
  MinOnRegister = 1
  MinOnTrigger = 2
  MaxCount = 4
  MaxInLoop = 4
INVARIANTS CalledOnlyIfWanted  
