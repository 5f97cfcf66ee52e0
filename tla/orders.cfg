CONSTANTS
  s1 = s1  s2 = s2  po1 = po1  po2 = po2
  bolt = bolt  nut = nut  acme = acme
  Sessions = {s1, s2}
  POs = {po1, po2}
  Suppliers = {acme}
  Products = {bolt, nut}
  LineTotals <- OddCents
  Limits <- TwoCents
  Failures = TRUE
  None = None
SPECIFICATION Spec
SYMMETRY Symmetric
INVARIANT TotalIsLines
INVARIANT StampsTellPath
PROPERTY ImplementsOrderBook
PROPERTY CreditRespected
