SPECIFICATION LiveSpec
CONSTANTS
  Texts = {x1, Empty}
  Empty = Empty
  Cap = 1
  Backstop = 2
  TornCap = 2
  StaleCap = 2
  MaxTurns = 2
  MaxFiles = 2
  MaxCalls = 2
  MaxCrashes = 1
  MaxTears = 1
  MaxMoves = 1
  Faults = {"cut", "acklost", "cancelcall"}
INVARIANT ForwardOnly
PROPERTY EveryReplyHandled
CHECK_DEADLOCK FALSE
