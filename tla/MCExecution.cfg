CONSTANTS
  BufferSize = 5
  MaxLength = 8
  Printable = {"A", "T", "/"}
  MaxLine = 4
  Adjacent <- Harmless
  NameMax = 4
  Plugins = {"plugin"}
  Names <- MCNames
  Basics <- MCBasics
SPECIFICATION LinesSpec
INVARIANTS
  OnlySeparatorsSkipped
  StringsWhole
  LookupFinds
  OkIsHandled
PROPERTY EditorSpec
CHECK_DEADLOCK FALSE
