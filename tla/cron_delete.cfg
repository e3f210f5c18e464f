SPECIFICATION Spec
CONSTANTS
  None = None
  weekly = weekly
  onChange = onChange
  Names = {job}
  ConfigNames = {}
  Schedules = {weekly}
  Triggers = {onChange}
  Modes = {"isolated"}
  Prompts = {"report"}
  ConfigDef <- MCConfigDef
  Patches <- MCPatches
  Clients = {c1, c2}
  Slots = {}
  Gens = {1, 2}
  MaxRuns = 0
  MaxSessions = 2
  DbMayFail = FALSE
SYMMETRY MCSymmetry
INVARIANT DeletedJobsAreUnregistered
