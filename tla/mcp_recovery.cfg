SPECIFICATION FairSpec
CONSTANTS
  None = None
  Callers = {}
  Gens = {1, 2}
  MaxRequests = 3
  MaxOps = 1
  MaxFailures = 2
  MaxBackoff = 3
PROPERTIES
  RestartEnds
  CrashIsNoticed
CHECK_DEADLOCK FALSE
