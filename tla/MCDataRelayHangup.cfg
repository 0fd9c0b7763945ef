CONSTANTS
  Alphabet = {"x"}
  Mtu = 3
  MaxSent <- MCMaxSent
  HangsUp = {1}
SPECIFICATION Safety
INVARIANT EndDelivers
