SPECIFICATION FairSpec
CONSTANTS
  None = None
  slack = slack
  telegram = telegram
  s1 = s1
  s2 = s2
  t1 = t1
  Names = {telegram}
  Instances = {t1}
  NameOf <- MCNameOf
  Boot = {t1}
  IgnoresStop = {telegram}
  SlowConnect = {telegram}
  Clients = {}
  MaxRestarts = 1
PROPERTY StopEnds
CHECK_DEADLOCK FALSE
