CONSTANTS
  Sessions = {s1, s2}
  POs = {po1, po2}
  Products = {nut, bolt}
  GRNs = {g1, g2}
  Quantities = {1}
  Deletable = {}
  None = None
  nut = nut
  bolt = bolt
  po1 = po1
  po2 = po2
  Ordered <- OrderedPair
  ReorderPoint <- ReorderPoints
  Override <- Overrides
SPECIFICATION FairSpec
PROPERTY CallsEnd
CHECK_DEADLOCK FALSE
