SPECIFICATION Spec
CONSTANTS
  Reasons = {"Unknown", "LowPower"}
  MaxBoots = 3
  MaxStarts = 4
INVARIANTS
  TypeOK
  OneEventPerBoot
  EventUnlessDropped
  ReasonIsOfThisReboot
CHECK_DEADLOCK FALSE
