SPECIFICATION ByHandSpec
CONSTANTS
  None = None
  Chats = {t1}
  Received = {t2}
  Injections = {}
  MaxTurns = 2
  Sessions = {s1}
  Compactors = {k1, k2}
  ByHand = {k2}
  MaxForced = 1
  Keep = 1
  MaxDeletes = 0
  MaxCrashes = 0
  Paths = {f, g}
  Texts = {x, y}
  Agents = {a1, a2}
  MaxFileCalls = 3
  MaxItems = 2
SYMMETRY ByHandSymmetry
INVARIANTS
  SummarisedOnce
  UndoGoesBack
  PatchGoesBack
CHECK_DEADLOCK FALSE
