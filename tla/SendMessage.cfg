SPECIFICATION Spec
CONSTANTS
  BUFFER_SIZE = 4
  MaxText = 30
  Junk = Junk
INVARIANTS
  TypeOK
  SentInOrder
  TextThenNul
CHECK_DEADLOCK FALSE
