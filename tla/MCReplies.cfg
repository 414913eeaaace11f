SPECIFICATION Spec
CONSTANTS
  MaxLines = 5
  Past = FALSE
  MaxPastes = 0
  Doings = {"prompt", "notice", "ask", "earlyesc", "esc", "connect", "push", "segment", "retry"}
  Rows = {TRUE}
  Faults = {"late"}
INVARIANTS
  DeliveredMeansEnded
  TextOnce
  TextNeverSkipped
  PromptsTruthful
CHECK_DEADLOCK FALSE
