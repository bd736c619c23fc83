SPECIFICATION Spec
CONSTANTS
  Gen = {g1, g2}
  MaxAlerts = 3
  Capacity = 2
  FirstIds = {0, 1}
  NoQueue = NoQueue
  NoId = NoId
INVARIANTS
  TypeOK
  ReceivedInOrder
  CutOffByRemoval
  NothingSkipped
PROPERTIES
  ChannelSafety
  QueuedAlertsArrive
  SendersReleased
CHECK_DEADLOCK FALSE
