SPECIFICATION Spec
CONSTANTS
  Transports = {"tcp", "udp"}
  MsgLen <- MCMsgLen
  BUFFER_SIZE = 7
  StackFrames = 3
  MaxSent = 5
  MaxSignals = 3
  Nothing = Nothing
INVARIANTS
  TypeOK
  LagBounded
  UpdatesOnceInOrder
PROPERTIES
  StuckOnlyByLoss
  TcpLoopLeft
CHECK_DEADLOCK FALSE
