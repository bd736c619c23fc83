SPECIFICATION Spec
CONSTANTS
  c1 = c1
  Conn = {c1}
  Udp = {}
  Emer = {e1}
  AlertProc = alert
  parent <- MCParent
  Entry = {north}
  FirstEntry = north
  NextEntry <- MCNextEntry
  Item = {meat}
  Amount = {"1", "100"}
  MaxAlerts = 0
  Unset = Unset
  NoDoc = NoDoc
  Torn = Torn
  NoItem = NoItem
  Cred = {ubuntu, other}
  ADMIN = ubuntu
  MIN_TEMPERATURE = 16
  MAX_TEMPERATURE = 38
  HIGH_TEMPERATURE = 38
  DocLen <- MCDocLen
PROPERTIES
  WedgedForever
  TornOnlyIfGrown
CHECK_DEADLOCK FALSE
