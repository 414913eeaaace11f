SPECIFICATION LiveSpec
CONSTANTS
  MaxLines = 2
  Past = FALSE
  MaxPastes = 1
  Doings = {"prompt", "earlyesc", "connect", "draft", "local"}
  Rows = {FALSE}
  Faults = {}
PROPERTIES
  FreeInTheEnd
  AllToldInTheEnd
CHECK_DEADLOCK FALSE
