SPECIFICATION FairSpec
CONSTANTS
  EvCap = 2
  Events = {"shutdown", "e1"}
  Producers = {"net"}
  Main = "main"
  Shutdown = "shutdown"
  Interruptible = {"main", "net"}
INVARIANTS TypeOK RingInv NoLostWakeup
PROPERTIES ImplementsFifo Delivers
CHECK_DEADLOCK FALSE
