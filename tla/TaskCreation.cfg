SPECIFICATION Spec
CONSTANTS
  Jobs = {j1, j2}
  Contents = {c1, c2}
  Blocking = {2}
  None = None
  MaxVersion = 2
  MaxPreviews = 2
  MaxTerms = 2
  MaxCommands = 1
  MaxLate = 1
SYMMETRY Symmetry
INVARIANTS TypeOK AcknowledgedIsStored TaskIsAsConfirmed
