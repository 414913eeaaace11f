SPECIFICATION LiveSpec
CONSTANTS
  Sync = {s1, s2}
  Async = {a1}
  None = None
  MaxEvents = 2
  Faults = {}
INVARIANTS
  TypeOK
  OneRun
  SlotHasOwner
  NoRunWithoutCaller
  InterruptMeansStopped
PROPERTY EveryCallAnswered
CHECK_DEADLOCK FALSE
