SPECIFICATION Spec
CONSTANTS
  Servers = {s1, s2}
  Urls = {u1, u2}
  None = None
  MaxCalls = 3
  MaxStarts = 2
  Faults = {}
SYMMETRY Symmetry
INVARIANT UsableOrTold
PROPERTY NothingLost
CHECK_DEADLOCK FALSE
