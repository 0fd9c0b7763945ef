CONSTANTS
  Clients = {c1, c2}
  MaxSignals = 1
  MaxCalls = 2
  Failing = {"connect", "memory"}
  Alphabet = {"+", "x"}
  Mtu = 3
  MaxSent <- MCMaxSent
  HangsUp = {}
SPECIFICATION AllSpec
INVARIANTS
  StreamsIntact
  EndDelivers
  PollIsCurrent
PROPERTIES
  EndEnds
  BusIsHeard
