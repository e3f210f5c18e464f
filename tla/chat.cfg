SPECIFICATION Spec
CONSTANTS
  None = None
  Chats = {t1, t2}
  Received = {t3}
  Injections = {t4}
  MaxTurns = 2
  Sessions = {s1}
  Compactors = {k1, k2}
  ByHand = {}
  MaxForced = 0
  Keep = 2
  MaxDeletes = 1
  MaxCrashes = 1
SYMMETRY MCSymmetry
INVARIANTS
  TypeOK
  RunsCanBeAborted
  ArchivedAreSummarised
  SummarisedOnce
  MarksMatchCompactions
CHECK_DEADLOCK FALSE
