CONSTANTS
  ByteSize = 4
  EpochOffset = 13
  p1 = p1
  p2 = p2
  Ports = {p1}
  Start = 2
  Duration = 1
  Ahead <- OneAhead
  StratumArg = 17
  StratumSize = 16
  MaxInFlight = 1
  Faults = {"lose"}
SPECIFICATION FairSpec
PROPERTIES
  QueryTimesOut
CHECK_DEADLOCK FALSE
