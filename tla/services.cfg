SPECIFICATION ServicesSpec
CONSTANTS
  EntrySizes = {1, 4}
  MaxBytes = 3
  MaxFiles = 1
  MaxWrites = 4
  MaxLogRestarts = 1
  MaxIterations = 2
  MaxAttempts = 2
  MaxProviders = 2
  MaxCalls = 2
  ChunkBuffer = 1
  NumSubTasks = 3
  MaxParallel = 2
  Providers = {"a", "b"}
  Switchable = {"a", "b"}
  Keyless = {"a"}
  MaxOps = 2
  MaxOutputSize = 2
  MaxProduced = 4
  Senders = {"u1", "u2"}
  Editors = {"w1"}
  CLI = "cli"
  MaxDecisions = 3
  SendTries = 2
  SendRounds = 2
  MaxStarts = 2
  MaxAdapters = 2
  MaxTexts = 1
  Flows = {"f1"}
  Login = "cli"
  Callbacks = {"c1", "c2"}
  MaxTokens = 2
  Limits = {60}
  PromptSizes = {5, 30}
  ToolTokens = 4
  TextSizes = {2, 12}
  NodeSizes = {4}
  Window = 2
  RetrievalK = 2
  MaxStored = 3
  MaxNodes = 2
  Notes = {"a"}
  Prompters = {"r1", "r2"}
  MaxNotes = 1
  Tabs = {"t1", "t2"}
  SkillTexts = {"x", "y"}
  BundledTexts = {"x"}
  MaxSkillEdits = 3
  Requests = {"q1", "q2"}
  ProfileNames = {"n1", "n2"}
  ProfileTexts = {"x"}
  Conversations = {"c"}
  MaxProfiles = 2
  MaxRequests = 3
  MaxSeconds = 1
  MaxMessages = 2
  InboxSize = 1
  OutboxSize = 2
  MaxLinks = 2
  MaxRuns = 2
  EntityNames = {"a", "b"}
  Kinds = {"entity"}
  ListLimit = 2
  MaxRows = 3
  MaxLessons = 3
  MaxEdits = 1
  Launchers = {"k1", "k2"}
  Releases = {1, 3}
  Repeatable = {2}
  MaxLaunches = 3
INVARIANTS
  ServicesTypeOK
  FileWithinLimit
  BackupsKept
  CallsAreAnswered
  ChoicesSurvive
  AnswersAreTrue
  ContextFits
PROPERTIES
  ImplementsDialogue
  CallsEnd
CHECK_DEADLOCK FALSE
