SPECIFICATION Spec
CONSTANTS
  BufferSize = 2
  Stream = {1, 2}
  MaxEvents = 3
  MaxPending = 2
  MaxFaults = 1
  MaxLogins = 1
  h1 = h1
  h2 = h2
  Hook = {h1, h2}
  Keyless = {h2}
  Retries <- MCRetries
  MaxDispatches = 2
  MaxReloads = 2
CHECK_DEADLOCK FALSE
INVARIANTS
  HandledInOrder
  NothingSkipped
  CountIsAccurate
  RetriesSpent
PROPERTIES
  StreamSettles
  DeliveriesEnd
