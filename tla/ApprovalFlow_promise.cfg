SPECIFICATION Spec
CONSTANTS
  Request = {r1}
  Entry = {e1}
  NoRow = NoRow
  HoldTimeout = 1
  Slack = 1
  ProxyBuffer = 1
  ServerBuffer = 1
  MaxBreaks = 1
  MaxCrashes = 1
PROPERTIES
  KeepsPromise
  EveryQuestionCloses
  EveryHoldIsAsked
