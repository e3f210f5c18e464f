SPECIFICATION FairSpec
CONSTANTS
  None = None
  slack = slack
  telegram = telegram
  s1 = s1
  s2 = s2
  t1 = t1
  Names = {slack}
  Instances = {s1, s2}
  NameOf <- MCNameOf
  Boot = {s1}
  IgnoresStop = {}
  SlowConnect = {}
  Clients = {c1}
  MaxRestarts = 1
INVARIANTS
  TypeOK
  BackoffSchedule
  StatusIsTrue
  OwnChannel
  StoppedMeansQuiet
PROPERTIES
  DisconnectedStops
CHECK_DEADLOCK FALSE
