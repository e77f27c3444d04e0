SPECIFICATION FairSpec
CONSTANTS
  Events <- AppEvents
  EvCap = 2
  TextCap = 2
  BinCap = 1
  PbCap = 1
  SilenceChunks = 1
  MaxPress = 1
  MaxServer = 1
  MaxFault = 1
  Faults = {"spawn","device","nosid","decoder"}
  MayQuit = TRUE
  MicWorks = TRUE
INVARIANTS UploadBacked TeardownSafe
PROPERTY StopEnds
