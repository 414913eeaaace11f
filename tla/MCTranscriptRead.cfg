SPECIFICATION LiveSpec
CONSTANTS
  Vals = {a, Junk}
  Junk = Junk
  None = None
  Settle = 1
  MaxLines = 2
  MaxNow = 3
  MaxRewrites = 1
  Faults = {}
INVARIANT ReadIsFile
PROPERTIES
  NeverUnsays
  SeenInTheEnd
CHECK_DEADLOCK FALSE
