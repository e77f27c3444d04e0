SPECIFICATION Spec
CONSTANTS
  Events <- AppEvents
  EvCap = 4
  TextCap = 2
  BinCap = 1
  PbCap = 1
  SilenceChunks = 1
  MaxPress = 2
  MaxServer = 0
  MaxFault = 1
  Faults = {"spawn","init","connect","drop","write","bigframe","dump","torn","cut"}
  MayQuit = FALSE
  MicWorks = FALSE
INVARIANTS TypeOK UploadingIsUploading HandshakeBacked RestIsGenuine NothingStranded
