SPECIFICATION Spec
CONSTANTS
  Streams <- CoreDumps
  MaxSizes = {100, 2000, 9000, 12404, 100000}
  Serials = {12, 24}
  Ehdr = 64
  Phdr = 56
  Chunk = 4096
  Step = 2
  MaxWarnings = 3
  SizeMod = 1048576
  MaxFaults = 2
INVARIANTS
  TypeOK
  WholeIfSuccess
  WithinLimit
  NothingMissing
  SurvivesUnlessExceeded
PROPERTIES
  EndsUnlessStuck
CHECK_DEADLOCK FALSE
