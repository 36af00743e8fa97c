SPECIFICATION SafeSpec
CONSTANTS
  RollSize = 7
  FlushInterval = 2
  CheckEveryN = 3
  Period = 4
  Lens <- MCLens
  MaxNow = 7
  MaxLines = 6
INVARIANTS OversizeOnlyInItsSecond FewLinesLate FlushedInTime
CHECK_DEADLOCK FALSE
