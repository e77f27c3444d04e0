SPECIFICATION Spec
CONSTANTS
  Base = 3
  Half = 3
  SizeMax = 7
  ExtraLines = 3
  MaxSample = 0
  MaxPackets = 0
  MaxSize = 0
  MaxFrames = 0
  MaxAnswers = 0
  MaxHellos = 0
INVARIANT ConfigDesigned
CHECK_DEADLOCK FALSE
