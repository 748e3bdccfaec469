CONSTANTS
  ByteSize = 4
  EpochOffset = 13
  Clients = {c1}
  Messages <- NoopOnly
  XmtTimes <- TwoStamps
  Sizes = {"short", "exact"}
  Faults = {"send"}
  Uint8Size = 1
  Uint16Size = 1
  SNTP_PIPE_DEPTH = 2
  SocketDepth = 1
  MaxLog = 6
  MaxReadings = 2
  Begin = 2
  Duration = 1
  Ahead <- TwoAhead
  MaxInFlight = 1
SPECIFICATION SystemSpec
INVARIANTS
  ExitIsPrompt
  FairShare
  OffsetIsKnown
PROPERTIES
  ImplementsExchange
CHECK_DEADLOCK FALSE
