CONSTANTS
  bolt = bolt  nut = nut  ann = ann  bob = bob  stray = stray
  Products = {bolt, nut}
  Managers = {ann, bob}
  Attempts = 2
  LastNumber = 2
  Strays = {stray}
  None = None
SPECIFICATION Spec
SYMMETRY Symmetric
 
INVARIANT TakenNeedsOthers
INVARIANT ToldAgain
\* All products may be unusable.
CHECK_DEADLOCK FALSE
