SPECIFICATION Spec
CONSTANTS
  Prompts = {p1, p2, p3}
  Person = Person
  Depth = 2
  MaxInst = 1
  MaxCrashes = 1
  MaxMoves = 2
  Faults = {}
SYMMETRY Symmetry
INVARIANTS
  TypeOK
  QueueHasDrainer
  NoPromptLost
PROPERTY KeepsPromise
CHECK_DEADLOCK FALSE
