CONSTANTS
  Users = {u1, u2}
  Projects = {p1}
  None = None
  MaxVersion = 2
  MaxSessions = 2
  MaxReads = 2
SYMMETRY Symmetry
SPECIFICATION Spec
INVARIANTS TypeOK ShownIsNotOlder LogoutMasks
PROPERTIES PermissionsNeverGoBack
CHECK_DEADLOCK FALSE
