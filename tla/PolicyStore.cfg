SPECIFICATION MatchingSpec
CONSTANTS
  Agent = {a1}
  Policy = {p1, p2, p3}
  Rule = {r1}
  Name = {n1}
  NoPolicy = NoPolicy
  Request <- MCRequest
  Typed <- MCTyped
SYMMETRY Symmetry
CHECK_DEADLOCK FALSE
INVARIANTS
  HierarchyIsAcyclic
  QueriesEnd
PROPERTIES
  RevokingGrantsNothing
  RuleFitsRequest
