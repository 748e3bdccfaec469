CONSTANTS
  ByteSize = 1
  EpochOffset = 1
  Clients = {c1}
  Messages <- AllMessages
  XmtTimes <- OneStamp
  Sizes = {"exact"}
  Faults = {}
  Uint8Size = 2
  Uint16Size = 1
  SNTP_PIPE_DEPTH = 1
  SocketDepth = 1
SPECIFICATION FairSpec
PROPERTIES
  RefusalsAreCounted
