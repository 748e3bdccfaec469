CONSTANTS
  ByteSize = 2
  EpochOffset = 1
  Clients = {c1, c2}
  XmtTimes <- TwoStamps
  Sizes = {"empty", "short", "exact", "long"}
  Faults = {"bind", "recv", "send"}
  SocketDepth = 2
  MaxReadings = 2
SPECIFICATION FairSpec
INVARIANTS
  TypeOK
PROPERTIES
  ImplementsService
  RequestsAnswered
