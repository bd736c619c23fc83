SPECIFICATION Spec

CONSTANTS
  Conn = {c1}
  Tcp = {ip4, ip6}
  Other = {udp4, udp6, sensors}
  None = None
  MaxPresses = 2

INVARIANT QueueRemovedAfterEnd

PROPERTIES
  EmergencyProcessesEnd
  RecordedEndsConnection

CHECK_DEADLOCK FALSE
