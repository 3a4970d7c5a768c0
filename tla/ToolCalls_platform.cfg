SPECIFICATION FairSpec
CONSTANTS
  Calls = {c1}
  PlatformCalls = {p1}
PROPERTY PlatformCallsSettle
