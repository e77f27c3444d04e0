SPECIFICATION HealthySpec
CONSTANTS
  Events <- AppEvents
  EvCap = 6
  TextCap = 3
  BinCap = 1
  PbCap = 1
  SilenceChunks = 1
  MaxPress = 2
  MaxServer = 0
  MaxFault = 0
  Faults = {}
  MayQuit = FALSE
  MicWorks = FALSE
PROPERTY ReconnectSettles
