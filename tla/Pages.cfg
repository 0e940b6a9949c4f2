SPECIFICATION Spec
CONSTANTS
  Item = {i1, i2}
  Nothing = Nothing
  Page = {"rules", "agents", "approvals", "logs"}
  MaxAsks = 5
  MaxMoves = 5
  MaxFails = 1
  MaxVisits = 2
SYMMETRY Items
CHECK_DEADLOCK FALSE
INVARIANTS
  ShowsSelection
  OwnWritesShown
  EventsKeepUp
