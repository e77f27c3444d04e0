SPECIFICATION HealthySpec
CONSTANTS
  Events <- AppEvents
  EvCap = 6
  TextCap = 3
  BinCap = 1
  PbCap = 1
  SilenceChunks = 1
  MaxPress = 1
  MaxServer = 1
  MaxFault = 1
  Faults = {"device"}
  MayQuit = FALSE
  MicWorks = FALSE
PROPERTY DeviceFailureEndsRound
