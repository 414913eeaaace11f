SPECIFICATION Spec
CONSTANTS
  Texts = {x1, x2}
  Empty = Empty
  Cap = 1
  Backstop = 2
  TornCap = 2
  StaleCap = 2
  MaxTurns = 3
  MaxFiles = 3
  MaxCalls = 2
  MaxCrashes = 1
  MaxTears = 1
  MaxMoves = 1
  Faults = {}
SYMMETRY Symmetry
INVARIANTS
  TypeOK
  AtMostOnce
  OriginErrsOneWay
  LoopGuardHolds
  NoReplySkipped
CHECK_DEADLOCK FALSE
