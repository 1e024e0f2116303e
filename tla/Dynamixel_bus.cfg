SPECIFICATION Spec
CONSTANTS
  PortCnt = 2
  QueueSize = 1
  Contexts = {"main", "timer"}
  Requests <- SomeRequests
  NULL = NULL
INVARIANTS TypeOK NeverHangs NoJobForgotten
PROPERTIES JobServiceSpec
