CONSTANTS
  Users = {u1, u2}
  Projects = {p1}
  None = None
  MaxVersion = 2
  MaxSessions = 2
  MaxReads = 2

SPECIFICATION Spec
PROPERTY CompleteIsConfirmed

CHECK_DEADLOCK FALSE
