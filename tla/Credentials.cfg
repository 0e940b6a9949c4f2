SPECIFICATION Spec
CONSTANTS
  MaxAgents = 2
  Name = {n1, n2}
  Ip = {i1}
  NoIp = NoIp
  Call = {c1, c2}
  ServerBuffer = 4
  MaxCalls = 3
  MaxBreaks = 1
  MaxCrashes = 1
CHECK_DEADLOCK FALSE
INVARIANTS
  NothingStaleWhenSynced
  AddressWasEarned
  LastTokenTold
PROPERTIES
  RevokedStaysRevoked
  CatchesUp
