SPECIFICATION Spec
CONSTANTS
  Files = {f1, f2, f3}
  Sizes = {2}
  Disk = 8
  min_headroom = 2
  max_usage = 5
  max_size = 2
  Capacity = 2
  MaxCrashes = 2
  MaxInterrupts = 1
INVARIANTS
  TypeOK
  LimitsHold
  NoOrphanUnlessLost
  SentOnceUnlessUnanswered
PROPERTIES
  DeletedOnlyIfCommitted
  EntryLeaves
CHECK_DEADLOCK FALSE
