SPECIFICATION TraceSpec
CONSTANTS
  MaxTexts = 1
  MaxBlocks = 1
  MaxStarts = 1
  MaxTrouble = 0
  FirstCap = 1
  Content <- Round
INVARIANTS NothingFreedIsUsed
CHECK_DEADLOCK FALSE
