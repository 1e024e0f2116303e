SPECIFICATION FairSpec
CONSTANTS
  m1 = m1
  m2 = m2
  b1 = b1
  b2 = b2
  b3 = b3
  r1 = r1
  r2 = r2
  p1 = p1
  p2 = p2
  NULL = NULL
  MsgIDs = {m1, m2}
  Buffers = {b1, b3}
  PoolOf <- MCPoolOf
  QueueSize = 4
  MaxReceivers = 1
  Receivers = {r1}
  InitialCallbacks <- MCInitialCallbacks
  ProxyReceivers = {}
  Producers = {p1, p2}
  IDOf <- MCIDOf
  TimerProducers = {p2}
  RetryingProducers = {p1}
  StaleProducers = {}
  CopiedIDs = {m2}
  NullIDs = {m1}
  Payloads = {1}
  MaxLock = 3
CHECK_DEADLOCK FALSE
PROPERTY InterruptsComeBack
