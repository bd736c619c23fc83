SPECIFICATION Spec
CONSTANTS
  c1 = c1
  Conn = {c1, c2}
  Udp = {}
  Emer = {}
  AlertProc = alert
  parent <- MCParent
  Entry = {north}
  FirstEntry = north
  NextEntry <- MCNextEntry
  Item = {meat}
  Amount = {"1", "100"}
  MaxAlerts = 1
  Unset = Unset
  NoDoc = NoDoc
  Torn = Torn
  NoItem = NoItem
  Cred = {ubuntu, other}
  ADMIN = ubuntu
  MIN_TEMPERATURE = 16
  MAX_TEMPERATURE = 38
  HIGH_TEMPERATURE = 36  \* 38 in the code, which no simulated reading exceeds
  DocLen <- MCDocLen
INVARIANTS
  TypeOK
  SuppliesAuthorised
  SemFreeOutside
PROPERTIES
  StoreSafety
CHECK_DEADLOCK FALSE
