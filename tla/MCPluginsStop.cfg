CONSTANTS
  Modems = {m1, m2}
  NoModem = none
  MaxFound = 1
  MaxKept = 0
  Faults = {}
SPECIFICATION Spec
PROPERTY StopReturns
CHECK_DEADLOCK FALSE
