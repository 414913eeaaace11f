SPECIFICATION LiveSpec
CONSTANTS
  Prompts = {p1, p2}
  Person = Person
  Depth = 25
  MaxInst = 1
  MaxCrashes = 1
  MaxMoves = 1
  Faults = {}
PROPERTY EveryPromptSettles
CHECK_DEADLOCK FALSE
