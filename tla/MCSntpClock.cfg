CONSTANTS
  MsPerSecond = 4
  UsPerMs = 3
  NsPerMs = 5
  SNTP_FRACTION_VALUE_PER_MICROSECOND = 3
  FractionSize = 32
  SecondsSize = 3
  EpochOffset = 2
  Duration = 90
SPECIFICATION Spec
INVARIANTS
  ReadingIsAccurate
  ShownIsExact
PROPERTIES
  LaterIsNotBefore
