SPECIFICATION Spec
CONSTANTS
  Base = 3
  Half = 3
  SizeMax = 7
  ExtraLines = 3
  MaxSample = 3
  MaxPackets = 3
  MaxSize = 7
  MaxFrames = 3
  MaxAnswers = 4
  MaxHellos = 3
INVARIANTS ConfigHolds DumpHolds PcmHolds PacketHolds
CHECK_DEADLOCK FALSE
