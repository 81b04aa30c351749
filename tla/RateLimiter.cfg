SPECIFICATION Spec
CONSTANTS
  Count = 3
  Duration = 3
  Times = {3, 5, 6, 7}
  Cuts = {1}
  MaxEvents = 5
  MaxRestarts = 2
INVARIANTS
  TypeOK
  WindowUnlessLapsed
  SavedUnlessWriting
