SPECIFICATION RunSpec
CONSTANTS
  Words = 15
  PayloadBytes = {3, 4, 7, 11}
  Collection = {TRUE}
  MaxWrites = 7
  MaxRestarts = 0
INVARIANTS
  TypeOK
  HeadIsIntact
  RunInv
CHECK_DEADLOCK FALSE
