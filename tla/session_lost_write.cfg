CONSTANTS
  Calls = {c1, c2, c3}
  Rows = {stock, entry}
  Connections = 2
SPECIFICATION SessionSpec
INVARIANT AnsweredIsStored
\* Every call may be over.
CHECK_DEADLOCK FALSE
