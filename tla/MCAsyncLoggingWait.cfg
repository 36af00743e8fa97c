SPECIFICATION Spec
CONSTANTS
  a = a
  b = b
  c = c
  d = d
  long = long
  null = null
  Lines <- MCShortLines
  Size <- MCShortSize
  BufferSize = 3
  DropLimit = 2
  NoBuffer = null
PROPERTIES
  WaitForSecondsReturns
CHECK_DEADLOCK FALSE
