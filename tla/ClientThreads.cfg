SPECIFICATION FairSpec
CONSTANTS
  MaxTexts = 3
  MaxBlocks = 1
  MaxStarts = 2
  MaxTrouble = 2
  FirstCap = 1
  Content <- Round
INVARIANTS TypeOK TextsKept SomebodyWillAsk PointersSound
PROPERTIES Served ImplementsClient
CHECK_DEADLOCK FALSE
