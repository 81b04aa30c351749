SPECIFICATION OrderSpec
CONSTANTS
  Words = 13
  PayloadBytes = {3, 7}
  Collection = {TRUE}
  MaxWrites = 5
  MaxRestarts = 2
INVARIANTS
  RestartKeepsOldest
CHECK_DEADLOCK FALSE
