SPECIFICATION Spec
CONSTANTS
  Request = {q1, q2}
  Rule = {allow1, deny1}
  AllowRule = {allow1}
  Agent = {a1}
  Unknown = Unknown
  None = None
  Defaults = {"hold", "queue"}
  MaxChanges = 2
INVARIANTS
  LogIsTrue
  TablesAgree
  NothingGoesUnlogged
PROPERTIES
  EveryRequestIsLogged
CHECK_DEADLOCK FALSE
