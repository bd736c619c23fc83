SPECIFICATION Spec

CONSTANTS
  Conn = {c1, c2}
  Tcp = {ip4, ip6}
  Other = {udp4, udp6, sensors}
  None = None
  MaxPresses = 0

SYMMETRY Names

INVARIANTS
  TypeOK
  QueueRemovedAfterEnd
  MainEndsFromBelow
  SignalledByOwnEmergency

CHECK_DEADLOCK FALSE
