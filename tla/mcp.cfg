SPECIFICATION Spec
CONSTANTS
  None = None
  Callers = {c1}
  Gens = {1, 2, 3}
  MaxRequests = 3
  MaxOps = 1
  MaxFailures = 2
  MaxBackoff = 3
INVARIANTS
  TypeOK
  OneRestart
  OneLiveProcess
  AnswersMatch
  OfflineMeansDisabled
CHECK_DEADLOCK FALSE
