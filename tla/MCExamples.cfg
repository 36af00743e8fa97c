SPECIFICATION MCSpec
CONSTANTS
  c1 = c1
  c2 = c2
  server = server
  n1 = n1
  n2 = n2
  p1 = p1
  p2 = p2
  listen = listen
  e1 = e1
  o1 = o1
  Clients <- MCClients
  Message <- MCMessage
  SndBuf = 3
  Segmented = FALSE
  Server = server
  TimerNodes <- MCTimerNodes
  Timeouts <- MCTimeouts
  Cycle = 6
  MaxClock = 14
  Peers <- MCPeers
  ListenSock = listen
  Requests = 2
  BufSize = 1
  EpollClients <- MCEpollClients
  OtherClients <- MCOtherClients
  MaxBytes = 3
  MaxTries = 3
INVARIANTS
  EchoIntact
  BlocksLive
  EventsMeanWhatTheySay
PROPERTIES
  EchoReturns
  TimersInTime
  SentIsAnswered
CHECK_DEADLOCK FALSE
