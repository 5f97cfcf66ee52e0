CONSTANTS
  Logins = {l1, l2, l3}
  Attempts = 3
  LastFailure = 10
  Token = {t1, t2, t3}
  TokenCalls = {k1, k2}
  Emails = {ann, bob, cleo}
  Requests = {r1, r2}
  Product = {nut, bolt}
  Clients = {d1, d2, d3}
  Barcodes = {b1, b2}
  LastVersion = 3
  LastId = 6
  Limit = 2
  None = None
  NoOne = NoOne
  Nil = Nil
  Unset = Unset
  Missing = Missing
SPECIFICATION MCSpec
INVARIANTS
  LimitHolds
  WalkComplete
PROPERTIES
  BlockEnds
  RevokedRefused
  DeletionLeavesAnAdmin
  EditsBuildOnCopy
\* Every token may have expired, every product be deleted.
CHECK_DEADLOCK FALSE
