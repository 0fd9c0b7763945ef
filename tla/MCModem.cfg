CONSTANTS
  Dte = dte
  Reporters = {r1}
  Callbacks = {c1}
  NoThread = none
  MaxRequests = 2
  MaxInput = 2
  Daemon = TRUE
SPECIFICATION Safety
INVARIANTS
  MessagesWhole
  DataModeExclusive
  LockLeftFree
  ReportersGone
PROPERTY
  DialogueSpec
