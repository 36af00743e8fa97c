SPECIFICATION Spec
CONSTANTS
  kSmallBuffer = 4000
  kMaxNumericSize = 32
  kMicroSecondsPerSecond = 10
  Micros <- MCMicros
  MaxStamp = 2000000000
  Instants <- MCInstants
  LogInstants <- MCLogInstants
  ZoneFiles <- MCZoneFiles
  SetZoneFiles <- MCSetZoneFiles
  Offsets <- MCOffsets
  TextSizes <- MCTextSizes
  Integrals <- MCNumbers
  SetLevels <- MCSetLevels
  SetNames <- MCSetNames
  MaxPieces = 2
  MaxForks = 1
INVARIANTS
  TimesConvert
  HeadIsCurrent
  LineArrives
CHECK_DEADLOCK FALSE
