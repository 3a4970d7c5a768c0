SPECIFICATION FairSpec
CONSTANTS
  Calls = {c1, c2}
  PlatformCalls = {p1}
INVARIANTS TypeOK ExitIsProven DeletedWhenQuiet EndedIsSettled
PROPERTY ClosingTaskEnds
