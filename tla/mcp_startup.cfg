SPECIFICATION ProgramSpec
CONSTANTS
  None = None
  Callers = {}
  Gens = {1}
  MaxRequests = 3
  MaxOps = 0
  MaxFailures = 1
  MaxBackoff = 1
PROPERTY StartupFailsFast
CHECK_DEADLOCK FALSE
