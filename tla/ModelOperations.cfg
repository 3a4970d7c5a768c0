SPECIFICATION Spec
CONSTANTS
  s1 = s1
  p1 = p1
  Services = {s1}
  Profiles = {p1}
  ServiceOf <- MCServiceOf
  Handlers = {h1, h2}
  MaxOps = 4
  MaxRevision = 4
SYMMETRY Symmetry
INVARIANTS TypeOK AskedOnce OfferedIsThere RevokedIsBlocked
CHECK_DEADLOCK FALSE
