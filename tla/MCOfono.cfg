CONSTANTS
  Modems = {m1, m2}
  Switches = {"ussd"}
  Kinds = {"Status", "Attached", "RemoteHeld"}
  Statuses = {1, 2}
  MaxSignals = 2
  MaxCommands = 3
  Faults = {"memory", "query"}
  Null = null
  CallCommands = 2
  TextCommands = 1
  CallChanges = 1
  CallFaults = 1
  Groups <- MCGroups
  Values <- MCValues
  Codes = {"1111", "2222"}
  Patterns = {"SIM-PIN", "SIM-PUK"}
  Facs = {"SC", "PN", "AB", "XX"}
  MaxTries = 2
  Texts = {"plain", "foreign"}
  Foreign = {"foreign"}
  Hexes <- MCHexes
  Numbers <- MCNumbers
  Pdus <- MCPdus
  Dialled <- MCDialled
  Tones <- MCTones
  MaxNumber = 2
  MaxBuffer = 3
SYMMETRY Interchangeable
SPECIFICATION AllSpec
CHECK_DEADLOCK FALSE
INVARIANTS
  ModesAreWatched
  UnregisterLeavesNothing
  SelectionHolds
  LatestIsCurrent
  AnswersAgree
  TriesSpared
  TextsArrive
