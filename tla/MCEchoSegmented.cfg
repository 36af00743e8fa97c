SPECIFICATION SafeSpec
CONSTANTS
  c1 = c1
  c2 = c2
  server = server
  Clients <- MCClients
  Message <- MCMessage
  SndBuf = 3
  Segmented = TRUE
  Server = server
INVARIANT EchoIntact
CHECK_DEADLOCK FALSE
