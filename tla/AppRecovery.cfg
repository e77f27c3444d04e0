SPECIFICATION HealthySpec
CONSTANTS
  Events <- AppEvents
  EvCap = 5
  TextCap = 3
  BinCap = 1
  PbCap = 2
  SilenceChunks = 1
  MaxPress = 1
  MaxServer = 2
  MaxFault = 2
  Faults = {"drop","connect","init","write","spawn","torn","cut"}
  MayQuit = FALSE
  MicWorks = FALSE
INVARIANT RoundEndBacked
PROPERTIES ErrorRecovers RoundEnds
