SPECIFICATION Spec
CONSTANTS
  m1 = m1
  m2 = m2
  b1 = b1
  b2 = b2
  b3 = b3
  r1 = r1
  r2 = r2
  p1 = p1
  p2 = p2
  NULL = NULL
  MsgIDs = {m1, m2}
  Buffers = {b1, b3}
  PoolOf <- MCPoolOf
  QueueSize = 4
  MaxReceivers = 2
  Receivers = {r1, r2}
  InitialCallbacks <- MCInitialCallbacks
  ProxyReceivers = {r2}
  Producers = {p1, p2}
  IDOf <- MCIDOf
  TimerProducers = {p2}
  RetryingProducers = {p1}
  StaleProducers = {}
  CopiedIDs = {m2}
  NullIDs = {}
  Payloads = {1, 2}
  MaxLock = 3
INVARIANTS TypeOK ReferencesCounted WriterIsAlone FlagsTell NeverFull
PROPERTY MessageQueueSpec
