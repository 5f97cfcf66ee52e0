CONSTANTS
  Sessions = {s1, s2, s3}
  Attempts = 2
  Last = 3
  None = None
  Calls = {c1, c2}
  Rows = {stock, entry}
  Connections = 1
SPECIFICATION MCSpec
INVARIANTS
  Gapless
  ConflictNeedsOvertaking
  AllOrNothing
  OnlyActivitiesStore
PROPERTIES
  SeriesEnds
  CallsEnd
  ConnectionsReturn
\* Every call may be over.
CHECK_DEADLOCK FALSE
