SPECIFICATION Spec
CONSTANTS
  FirstBackoff = 60
  Refresh = 3600
  IntHalf = 32768
  Spent = {0}
  SetBack = {}
  MaxQueued = 2
  MaxMailbox = 1
  MaxFails = 12
  MaxSignals = 0
INVARIANTS
  PausesAfterFailure
CHECK_DEADLOCK FALSE
