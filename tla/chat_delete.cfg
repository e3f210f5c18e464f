SPECIFICATION Spec
CONSTANTS
  None = None
  Chats = {t1}
  Received = {t2}
  Injections = {}
  MaxTurns = 2
  Sessions = {s1}
  Compactors = {k1}
  ByHand = {}
  MaxForced = 0
  Keep = 2
  MaxDeletes = 1
  MaxCrashes = 0
INVARIANT MessagesGoWithSession
CHECK_DEADLOCK FALSE
