CONSTANTS
  Sessions = {s1, s2}
  POs = {po1}
  Products = {nut, bolt}
  GRNs = {g1}
  Quantities = {1, 2}
  Deletable = {}
  None = None
  nut = nut
  bolt = bolt
  po1 = po1
  po2 = po2
  Ordered <- OrderedOne
  ReorderPoint <- ReorderPoints
  Override <- Overrides
SPECIFICATION Spec
INVARIANT NoSecondEntry
CHECK_DEADLOCK FALSE
