CONSTANTS
  ByteSize = 1
  EpochOffset = 1
  Clients = {c1}
  Messages <- FewMessages
  XmtTimes <- OneStamp
  Sizes = {"exact"}
  Faults = {"sockopt"}
  Uint8Size = 1
  Uint16Size = 1
  SNTP_PIPE_DEPTH = 1
  SocketDepth = 1
SPECIFICATION FairSpec
PROPERTIES
  PipeIsPolled
