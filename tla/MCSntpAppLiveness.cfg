CONSTANTS
  ByteSize = 1
  EpochOffset = 1
  Clients = {c1, c2}
  Messages <- AllMessages
  XmtTimes <- OneStamp
  Sizes = {"empty", "short", "exact"}
  Faults = {"subscribe", "sockopt", "send"}
  Uint8Size = 1
  Uint16Size = 1
  SNTP_PIPE_DEPTH = 2
  SocketDepth = 2
SPECIFICATION FairSpec
PROPERTIES
  CommandsServed
  RequestsServed
  ExitHonoured
