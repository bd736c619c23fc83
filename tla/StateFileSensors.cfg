SPECIFICATION Spec
CONSTANTS
  c1 = c1
  Conn = {c1}
  Udp = {u1}
  Emer = {}
  AlertProc = alert
  parent <- MCParent
  Entry = {north, south}
  FirstEntry = north
  NextEntry <- MCNextEntry
  Item = {meat}
  Amount = {"100"}
  MaxAlerts = 1
  Unset = Unset
  NoDoc = NoDoc
  Torn = Torn
  NoItem = NoItem
  Cred = {ubuntu, other}
  ADMIN = ubuntu
  MIN_TEMPERATURE = 16
  MAX_TEMPERATURE = 38
  HIGH_TEMPERATURE = 36  \* 38 in the code, which no simulated reading exceeds
  DocLen <- MCDocLen
INVARIANTS
  AlertsNeverOvercount
PROPERTIES
  RequestsComplete
CHECK_DEADLOCK FALSE
