SPECIFICATION Spec
CONSTANTS
  Prompts = {p1, p2}
  Person = Person
  Depth = 2
  MaxInst = 2
  MaxCrashes = 1
  MaxMoves = 2
  Faults = {"meddle", "crashpaste", "cancelcall", "cancelpaste", "failpaste", "canceltake"}
SYMMETRY Symmetry
INVARIANTS
  EnterSubmitsTheBatch
  NotGivenToReplacement
PROPERTY TaintHoldsPrompts
CHECK_DEADLOCK FALSE
