CONSTANTS
  ByteSize = 4
  EpochOffset = 13
  p1 = p1
  p2 = p2
  Ports = {p1, p2}
  Start = 2
  Duration = 1
  Ahead <- TwoAheads
  StratumArg = 17
  StratumSize = 16
  MaxInFlight = 1
  Faults = {"lose", "repeat", "serialize", "send", "recv"}
SPECIFICATION FairSpec
INVARIANTS
  TypeOK
  OffsetIsBounded
PROPERTIES
  QuerySucceeds
