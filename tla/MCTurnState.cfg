SPECIFICATION Spec
CONSTANTS
  MaxLines = 6
  Past = TRUE
  MaxPastes = 1
  Doings = {"prompt", "peer", "draft", "ask", "earlyesc", "connect", "restart"}
  Rows = {TRUE, FALSE}
  Faults = {"undelivered"}
INVARIANTS
  TypeOK
  ReportTrue
  OpenerNamed
PROPERTIES
  NeverIntoRunningTurn
  EscReportedFirst
CHECK_DEADLOCK FALSE
