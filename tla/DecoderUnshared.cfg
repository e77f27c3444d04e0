SPECIFICATION Spec
CONSTANTS
  Events <- AppEvents
  EvCap = 4
  TextCap = 2
  BinCap = 1
  PbCap = 1
  SilenceChunks = 1
  MaxPress = 2
  MaxServer = 1
  MaxFault = 1
  Faults = {"spawn","init","connect","drop","write","bigframe","dump","decoder"}
  MayQuit = FALSE
  MicWorks = FALSE
INVARIANT DecoderUnshared
