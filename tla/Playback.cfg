SPECIFICATION Spec
CONSTANTS
  PbCap = 3
  Chunks = 2
  MaxBlocks = 6
  MaxStops = 2
INVARIANTS TypeOK RingInOrder NoLostWakeup LentIntact
PROPERTIES Served ImplementsPlayback
CHECK_DEADLOCK FALSE
