CONSTANTS
  Sessions = {s1}
  POs = {po1, po2}
  Products = {nut, bolt}
  GRNs = {g1, g2, g3}
  Quantities = {1, 2}
  Deletable = {bolt}
  None = None
  nut = nut
  bolt = bolt
  po1 = po1
  po2 = po2
  Ordered <- OrderedShared
  ReorderPoint <- ReorderPoints
  Override <- Overrides
SPECIFICATION Spec
INVARIANTS
  OneEntryPerLine
  NoOverReceipt
  SettledMeansInStock
PROPERTY CompletedGrnFrozen
CHECK_DEADLOCK FALSE
