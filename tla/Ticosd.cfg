SPECIFICATION Spec
CONSTANTS
  FirstBackoff = 60
  Refresh = 3600
  IntHalf = 32768
  Spent = {0, 90}
  SetBack = {7200}
  MaxQueued = 2
  MaxMailbox = 2
  MaxFails = 12
  MaxSignals = 2
INVARIANTS
  TypeOK
  NapBounded
  BackoffDoubles
  AwakeUnlessMissed
PROPERTIES
  Ends
CHECK_DEADLOCK FALSE
