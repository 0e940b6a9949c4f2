SPECIFICATION SyncSafety
CONSTANTS
  Agent = {a1, a2}
  Policy = {p1, p2}
  Rule = {r1}
  Name = {n1, n2}
  NoPolicy = NoPolicy
  All = All
  Calls = {"policies", "rules"}
  ServerBuffer = 1
  MaxCalls = 2
  MaxBreaks = 0
  MaxCrashes = 0
CHECK_DEADLOCK FALSE
INVARIANTS
  OnlyAssignedRules
