SPECIFICATION SyncSpec
CONSTANTS
  Agent = {a1, a2}
  Policy = {p1, p2}
  Rule = {r1}
  Name = {n1, n2}
  NoPolicy = NoPolicy
  All = All
  Calls = {"policies", "rules", "move", "approvals", "agents", "sighup"}
  ServerBuffer = 1
  MaxCalls = 2
  MaxBreaks = 1
  MaxCrashes = 1
CHECK_DEADLOCK FALSE
INVARIANTS
  RulesInForce
PROPERTIES
  CatchesUp
