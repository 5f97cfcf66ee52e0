\* Two overlapping calls, two POs over the same two products.
CONSTANTS
  Sessions = {s1, s2}
  POs = {po1, po2}
  Products = {nut, bolt}
  GRNs = {g1, g2}
  Quantities = {1, 2}
  Deletable = {nut, bolt}
  None = None
  nut = nut
  bolt = bolt
  po1 = po1
  po2 = po2
  Ordered <- OrderedShared
  ReorderPoint <- ReorderPoints
  Override <- Overrides
SPECIFICATION Spec
SYMMETRY Symmetric
INVARIANTS
  StockIsLedgerBalance
  LedgerMatchesGrns
  ReceivedMeansCovered
  BackordersShrink
  DeadlockCrossesPOs
  IInv
\* Every GRN may be completed: nothing is left to do.
CHECK_DEADLOCK FALSE
PROPERTIES
  ImplementsStockLedger
  LifecycleLegal
  ReorderFlagCurrent
