CONSTANTS
  Dte = dte
  Reporters = {r1}
  Callbacks = {c1}
  NoThread = none
  MaxRequests = 1
  MaxInput = 1
  Daemon = FALSE
SPECIFICATION Spec
PROPERTIES
  StopReturns
  LineEndsInTheEnd
  MessagesGoOut
