SPECIFICATION RunSpec
CONSTANTS
  Words = 10
  PayloadBytes = {3, 7}
  Collection = {TRUE}
  MaxWrites = 6
  MaxRestarts = 0
PROPERTIES
  CompletesWhatWasSent
CHECK_DEADLOCK FALSE
