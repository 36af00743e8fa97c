SPECIFICATION SafeSpec
CONSTANTS
  f1 = f1
  f2 = f2
  f3 = f3
  loopThread = loopThread
  t1 = t1
  t2 = t2
  sock = sock
  wakeup = wakeup
  Functors <- MCFunctors2
  LoopThread = loopThread
  OtherThreads <- MCThreads1
  Channels <- MCChannels
  WakeChannel = wakeup
  EventsNum = 1
INVARIANTS
  NeverSleepsOnWork
