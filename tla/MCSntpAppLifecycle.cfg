CONSTANTS
  ByteSize = 2
  EpochOffset = 1
  Clients = {c1}
  Messages <- AllMessages
  XmtTimes <- TwoStamps
  Sizes = {"empty", "short", "exact", "long"}
  Faults = {"register", "pipe", "subscribe", "socket", "sockopt", "poll", "recv", "send", "clock", "foreign"}
  Uint8Size = 2
  Uint16Size = 1
  SNTP_PIPE_DEPTH = 1
  SocketDepth = 1
SPECIFICATION Spec
INVARIANTS
  TypeOK
  ServingIsReady
  DescriptorsBounded
