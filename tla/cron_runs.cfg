SPECIFICATION FairSpec
CONSTANTS
  None = None
  weekly = weekly
  onChange = onChange
  Names = {job}
  ConfigNames = {}
  Schedules = {weekly}
  Triggers = {onChange}
  Modes = {"shared"}
  Prompts = {"report"}
  ConfigDef <- MCConfigDef
  Patches <- MCPatches
  Clients = {c1}
  Slots = {s1}
  Gens = {1, 2}
  MaxRuns = 2
  MaxSessions = 2
  DbMayFail = FALSE
INVARIANTS
  OneRunPerJob
  SharedRunsShareOneSession
PROPERTIES
  RunningIsReleased
  StopIsFinite
  LoopsEndAfterStop
