SPECIFICATION Spec
CONSTANTS
  RecvCap = 4
  EventCap = 3
  MaxLen = 5
  MaxMessages = 3
  MaxDrops = 1
INVARIANTS TypeOK MessagesWhole
CHECK_DEADLOCK FALSE
