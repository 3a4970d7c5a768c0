SPECIFICATION Spec
CONSTANTS
  Users = {u1, u2}
  Keys = {k1, k2}
  Starts = {k1}
INVARIANTS TypeOK NothingLeftBehind
PROPERTY ImplementsSubmission
