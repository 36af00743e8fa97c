SPECIFICATION Spec
CONSTANTS
  c1 = c1
  c2 = c2
  c3 = c3
  none = none
  Conns <- MCConns2
  NumThreads = 2
  MaxFds = 2
  FdLimit = 3
  OtherFds <- MCNoOther
  NoConn = none
PROPERTIES
  LimitIsOnConcurrent
CHECK_DEADLOCK FALSE
