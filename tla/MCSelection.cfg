CONSTANTS
  Processes = {writer, reader}
  Names <- MCNames
  MaxWrites = 2
  Null = null
SPECIFICATION Spec
CHECK_DEADLOCK FALSE
INVARIANT FindsOldOrNew
