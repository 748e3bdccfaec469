CONSTANTS
  ByteSize = 2
  EpochOffset = 1
  Clients = {c1, c2}
  Messages <- NoMessages
  XmtTimes <- TwoStamps
  Sizes = {"short", "long"}
  Faults = {"send"}
  Uint8Size = 1
  Uint16Size = 1
  SNTP_PIPE_DEPTH = 1
  SocketDepth = 1
  MaxLog = 6
  MaxReadings = 2
SPECIFICATION HSpec
SYMMETRY ClientSymmetry
INVARIANTS
  OneAnswerPerRequest
  StampsAreReadings
PROPERTIES
  ImplementsService
CHECK_DEADLOCK FALSE
