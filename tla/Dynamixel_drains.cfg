SPECIFICATION FairSpec
CONSTANTS
  PortCnt = 1
  QueueSize = 2
  Contexts = {"main", "timer"}
  Requests <- SomeRequests
  NULL = NULL
PROPERTIES QueueDrains
