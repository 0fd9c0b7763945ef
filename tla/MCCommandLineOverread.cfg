CONSTANTS
  MaxLine = 4
  Adjacent <- Something
SPECIFICATION Spec
INVARIANT OnlySeparatorsSkipped
CHECK_DEADLOCK FALSE
