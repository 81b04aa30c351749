SPECIFICATION Spec
CONSTANTS
  Pids = {p1, p2}
  Ctls = {c1}
  MaxDumps = 2
  MaxUses = 2
  Small = {p1}
  HeadSize = 1
  PipeSize = 1
  QueueLen = 1
  tx_retry_count = 1
  MaxEnds = 1
  MaxFaults = 1
INVARIANTS
  TypeOK
  MemoryIsOfCrashed
  QueuedOnce
PROPERTIES
  EverybodyLeaves
CHECK_DEADLOCK FALSE
