SPECIFICATION Safety
CONSTANTS
  Request = {r1, r2}
  Entry = {e1, e2}
  NoRow = NoRow
  HoldTimeout = 1
  Slack = 1
  ProxyBuffer = 1
  ServerBuffer = 1
  MaxBreaks = 1
  MaxCrashes = 1
SYMMETRY Symmetry
INVARIANTS
  AnswerIsTheOperators
  OneRowPerRequest
  LiveHoldNeverExpires
  ReaderNeverBlocks
  NoForgottenChannel
PROPERTIES
  DecisionIsFinal
