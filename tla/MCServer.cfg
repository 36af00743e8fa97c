SPECIFICATION Spec
CONSTANTS
  c1 = c1
  c2 = c2
  c3 = c3
  none = none
  Conns <- MCConns3
  NumThreads = 2
  MaxFds = 3
  FdLimit = 3
  OtherFds <- MCOther
  NoConn = none
INVARIANTS
  TypeOK
  EventFindsChannel
  OneOwner
  QueueDrained
PROPERTIES
  ArrivalIsHandled
CHECK_DEADLOCK FALSE
