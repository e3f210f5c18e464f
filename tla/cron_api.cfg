SPECIFICATION Spec
CONSTANTS
  None = None
  weekly = weekly
  onChange = onChange
  Names = {job}
  ConfigNames = {job}
  Schedules = {weekly}
  Triggers = {onChange}
  Modes = {"isolated"}
  Prompts = {"report", "digest"}
  ConfigDef <- MCConfigDef
  Patches <- MCPatches
  Clients = {c1, c2}
  Slots = {}
  Gens = {1, 2}
  MaxRuns = 0
  MaxSessions = 2
  DbMayFail = TRUE
SYMMETRY MCSymmetry
INVARIANTS
  TypeOK
  TimersMatchRegistry
  EnabledJobsAreArmed
  ConfigKeepsPrecedence
  QuietJobsAgree
