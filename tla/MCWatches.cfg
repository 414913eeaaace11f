SPECIFICATION Spec
CONSTANTS
  Convs = {A, B}
  Calls = {k1, k2}
  None = None
  MaxTasks = 4
  MaxCalls = 4
  MaxCrashes = 1
  MaxInst = 2
SYMMETRY Symmetry
INVARIANTS
  OneWatcher
  SavedIsServed
  ResumedWasAsked
CHECK_DEADLOCK FALSE
