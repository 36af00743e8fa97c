SPECIFICATION MCSpec
CONSTANTS
  t1 = t1
  t2 = t2
  ch1 = ch1
  ch2 = ch2
  q1 = q1
  q2 = q2
  NumThreads <- MCNumThreads
  Objects <- MCObjects
  MaxStarts = 2
  Channels <- MCChannels
  ChannelFds <- MCChannelFds
  Masks <- MCMasks
  NoChannel = NoChannel
  MAX_BUFF = 2
  SendRoom = 2
  StreamLen = 4
  Ports <- MCPorts
  kBufferSize = 2
  MaxSizes <- MCMaxSizes
  Kinds <- MCKinds
  FileSizes <- MCFileSizes
  MaxFile = 5
  MaxVersion = 2
  Memory <- MCMemory
  Pieces <- MCPieces
  Callers <- MCCallers
  Workers <- MCWorkers
  Files <- MCFiles
  ProcNames <- MCProcNames
INVARIANTS
  LoopsAreLive
  NotifyNotLost
  ThreadAccounted
  PollerAgrees
  HelpersKeepTheirWord
  ComparesBytes
PROPERTIES
  StartReturns
  ReadIsWhole
  InfoIsTrue
CHECK_DEADLOCK FALSE
