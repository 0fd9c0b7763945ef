CONSTANTS
  Ids = {1, 2, 3}
  Numbers = {"n"}
  Times = {10}
  Operators = {"o"}
  Commands <- MCCommands
  MaxCommands = 2
  MaxChanges = 1
  MaxFaults = 1
  Changeable = {"calls", "networks", "Powered"}
SPECIFICATION Spec
CHECK_DEADLOCK FALSE
INVARIANTS
  OkIsDone
  OnlyNamedSettings
PROPERTIES
  TimeBeforeNumber
  OnlyCallsMeant
  CommandEnds
