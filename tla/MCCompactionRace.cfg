SPECIFICATION TurnSpec
CHECK_DEADLOCK FALSE
VIEW TurnView
CONSTANTS
  ChatOwners = {"alice"}
  SessionIds = {"s1","s2"}
  Turns = {"t1","t2"}
  FirstSession = "s1"
  FirstOwner = "alice"
  PastTurns <- Past
  KeepMessages = 4
  TailTokens = 4
  TriggerTokens = 5
  HardTokens = 9
  WorthTokens = 1
  MaxMessages = 10
  MaxEdits = 1
  Pages = {"p1"}
  ToolCalls = 2
  TotalTokens = 12
  PromptTokens = {3,6,11}
  ToolTokens = 1
  CallTokens = 1
  Reservation = 1
  MinResult = 1
  FailureTokens = 1
  Minimals = {1,3}
  PageTokens = {3,9}
  MaxLedger = 1
  MaxWebTurns = 2
  MaxPolicyChanges = 1
  Urls <- MCUrls
  Patterns <- MCPatterns
  Covers <- MCCovers
  SeedsOf <- MCSeedsOf
  SitePatterns = {"site"}
  Links <- MCLinks
  Origin <- MCOrigin
  WebOwners = {"o1"}
  NoUrl = "nourl"
  NoGroup = "nogroup"
  RuleGroups = {"docs"}
  MaxRules = 2
  RunPages = 3
  PerSite = 3
  ResponseBytes = 1
  RunBytes = 3
  CachePages = 1
  Firecrawl = TRUE
  HourCap = 1
  PolicyFiles <- MCPolicyFiles
  MaxPolicyWrites = 1
  MaxReads = 1
  SavedCaches <- MCSavedCaches
  Providers <- MCProviders
  RequestTime = 6
  Pace = 3
  PublicReserve = 4
  PublicPause = 2
  QuotaPause = 0
  Hour = 8
  AlertPerHour = 1
  Keys = {"nokey", "k"}
  NoKey = "nokey"
  MaxTime = 5
  MaxSearches = 2
  MaxKeyChanges = 1
  Sources = {"s1", "s2"}
  Researchers = {"a"}
  NoOne = "none"
  Rounds = 1
  Subqueries = 2
  TotalBudget = 5
  PlanCap = 1
  AnswerCap = 2
  PromptSize = 2
  MaxJobs = 1
  MaxRuns = 2
  MaxRevocations = 1
  Calls = {"c1", "c2"}
  Pullers = {"p1", "p2"}
  Rpm = 1
  MessageTokens = {1, 4}
  MaxOutput = 2
  BudgetCap = 5
  HeuristicBudget = FALSE
  ContextWindow = 5
  MaxEvents = 2
  Models = {"m1"}
  WindowSizes = {2, 16}
  BaseWindow = 8
  MaxWindow = 16
  PromptBase = 7
  WebBase = 7
  ShippedCompact = 6
  ShippedReply = 1
  ShippedWeb = 7
  WebBudgets = {4, 9}
  Headroom = 1
  ToolDefTokens = 1
  MinResultTokens = 1
  PrefillReach = 9
  FallbackEnabled = TRUE
  ToolFree = {}
  MaxTunes = 1
  MaxWindowReads = 1
  SoulMaxChars = 3
  SoulHardCap = 4
  SoulSizes = {0, 4}
  Styles = {"concise"}
  BuiltinChars <- MCBuiltin
  OverlayChars = 3
  SkillIds = {"k1", "k2"}
  SkillSizes = {1, 3}
  SkillMaxChars = 2
  SkillsTotal = 3
  MaxSkills = 2
  MemoryTotal = 4
  PinnedReserved = 2
  FactsReserved = 3
  FactChars = 3
  MaxNotes = 2
  GoalModes = {"off", "all"}
  ToolModels = {TRUE}
  NoteChars = 2
  NotesPromptChars = 3
  Readers = {"ann"}
  ChatSessions = {"s1", "s2"}
  SessionOwner <- MCSessionOwner
  FileIds = {"f1", "f2"}
  FileOwner <- MCFileOwner
  MaxPinned = 1
  MaxStagings = 1
  StoredIds = {"s1"}
  SessionOwners = {"o1"}
  SessionAdmins = {"o1"}
  GoalTexts = {"", "g1"}
  Stamps = {"t1", "t2"}
  MaxStages = 2
  MaxSubmits = 2
  MaxSaves = 5
  Runs = {"r1", "r2"}
  Sessions = {"s1"}
  SessionOf <- MCSessionOf
  Goals = {"g1"}
  Watchers = {"w1"}
  MaxTurns = 1
  MaxTokens = 0
  MaxFailures = 1
  TurnTokens = 0
  CoolsDown = FALSE
  Lag = 1
INVARIANT HistoryKept
