SPECIFICATION Spec
CONSTANTS
  PipeCap = 1
  RespCap = 3
  MaxOut = 5
INVARIANTS TypeOK ThreadsBacked ConnectsWhenTold GivesBack VerdictSound
PROPERTIES Ends
CHECK_DEADLOCK FALSE
