SPECIFICATION Spec
CONSTANTS
  a = a
  b = b
  c = c
  d = d
  long = long
  null = null
  Lines <- MCLines
  Size <- MCSize
  BufferSize = 3
  DropLimit = 2
  NoBuffer = null
INVARIANTS
  SparesSuffice
  StartedBeforeStop
  LinesAccounted
PROPERTY StopReturnsUnlessStuck
CHECK_DEADLOCK FALSE
