SPECIFICATION Spec
CONSTANTS
  Events <- AppEvents
  EvCap = 6
  TextCap = 3
  BinCap = 1
  PbCap = 1
  SilenceChunks = 1
  MaxPress = 1
  MaxServer = 0
  MaxFault = 1
  Faults = {"drop"}
  MayQuit = FALSE
  MicWorks = TRUE
INVARIANT AudioAfterHello
