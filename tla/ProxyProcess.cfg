SPECIFICATION Spec
CONSTANTS
  Token = {t1, t2, t3}
  Thread = {g1, g2}
  NoAgent = NoAgent
  TTL = 2
  Slack = 1
  Size = 2
  Hours = 2
  MaxRecords = 4
  MaxFaults = 2
SYMMETRY Symmetry
INVARIANTS
  RefsSurvive
PROPERTIES
  AnswersAreFresh
CHECK_DEADLOCK FALSE
