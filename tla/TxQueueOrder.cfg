SPECIFICATION FairOrderSpec
CONSTANTS
  Words = 13
  PayloadBytes = {3, 4, 7}
  Collection = {TRUE, FALSE}
  MaxWrites = 6
  MaxRestarts = 2
INVARIANTS
  HeadIsOldestUnlessSlip
  HeadIsIntactUnlessSlip
PROPERTIES
  FifoSpec
  EventuallySent
CHECK_DEADLOCK FALSE
