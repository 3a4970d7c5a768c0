SPECIFICATION Spec
CONSTANTS
  s1 = s1
  p1 = p1
  Services = {s1}
  Profiles = {p1}
  ServiceOf <- MCServiceOf
  Handlers = {h1}
  MaxOps = 2
  MaxRevision = 2
INVARIANTS FailedLeftNothing
CHECK_DEADLOCK FALSE
