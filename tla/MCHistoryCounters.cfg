CONSTANTS
  ByteSize = 1
  EpochOffset = 0
  Clients = {c1}
  Messages <- CountingMessages
  XmtTimes <- OneStamp
  Sizes = {"short", "exact"}
  Faults = {"recv", "send"}
  Uint8Size = 3
  Uint16Size = 2
  SNTP_PIPE_DEPTH = 1
  SocketDepth = 1
  MaxLog = 7
  MaxReadings = 1
SPECIFICATION HSpec
INVARIANTS
  CountersMatchLog
  TelemetryIsSnapshot
CHECK_DEADLOCK FALSE
