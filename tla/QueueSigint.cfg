SPECIFICATION FairSpec
CONSTANTS
  EvCap = 2
  Events = {"shutdown"}
  Producers = {"net"}
  Main = "main"
  Shutdown = "shutdown"
  Interruptible = {"main"}
PROPERTY SigintGetsThrough
CHECK_DEADLOCK FALSE
