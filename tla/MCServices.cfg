SPECIFICATION ServicesSpec
CHECK_DEADLOCK FALSE
VIEW ServicesView
CONSTANTS
  Admin = "admin"
  Names = {"admin","bob"}
  Tokens = {"k1","k2"}
  AccountRequests = {"r1"}
  IdleLimit = 2
  AbsoluteLimit = 3
  RestrictedIdle = 1
  RestrictedAbsolute = 2
  TouchInterval = 2
  MaxUsers = 2
  MaxSessions = 2
  LockThreshold = 1
  LockBase = 1
  LockCeiling = 2
  MaxClock = 3
  MaxFailures = 1
  MaxCrashes = 1
  KeyOwners = {"alice"}
  KeyIds = {"k1","k2"}
  Calls = {"c1","c2"}
  MaxKeys = 1
  Concurrency = 1
  PerKeyRate = 1
  GlobalRate = 2
  MaxSwitches = 2
  KeyNames = {"k1", "k2"}
  KeyValues = {"a", "b"}
  Unset = "unset"
  MaxStoreFaults = 1
  MaxKeyCrashes = 1
  MaxKeyUpdates = 1
  MaxFile = 1
  QueueLines = 2
  UsageOf <- MCUsage
  RateTable <- MCRates
  Unpriced <- MCUnpriced
  MaxRecords = 2
  MaxLogFaults = 1
  MaxChildren = 2
  Texts = {"a", "b", "x"}
  BadTexts = {"x"}
  Missing = "missing"
  PersonaIds = {"p", "q"}
  MaxSoulRecords = 3
  MaxSoulOps = 3
  MaxSoulFaults = 1
  MaxHandEdits = 1
  FileOwners = {"ann"}
  Requests = {"r1"}
  Bodies <- MCBodies
  MaxRequestBytes = 3
  MaxFileBytes = 2
  MaxFilesPerRequest = 2
  HomeQuotaBytes = 3
  MaxHomeBlobs = 2
  UploadPermits = 1
  OwnerNotes = 2
  MaxBlobsEver = 2
  MaxDiskFaults = 1
  MaxFileCrashes = 1
  Owners = {"alice", "bob"}
  FactIds = {"f1", "f3"}
  ProposalIds = {"p1", "p2"}
  EpisodeIds = {"e1", "e2"}
  FactOwner <- MCFactOwner
  ProposalOwner <- MCProposalOwner
  EpisodeOwner <- MCEpisodeOwner
  MaxFacts = 1
  MaxProposals = 2
  MaxEpisodes = 1
  MaxBytes = 3
  MaxRevision = 3
  GateSetters = {"r1", "r2"}
  MemoryGateNames = {"consolidation", "auto_consolidation"}
  ConfiguredOn = {"consolidation"}
  LocalModels = {"m", "n"}
  CloudModels = {"c"}
  SeedModel = "m"
  MaxStarts = 2
  MaxCertificates = 2
  MaxHomeEdits = 2
  MaxCliRuns = 2
  SkillProcs = {"p1", "p2", "p3"}
  SkillNames = {"n"}
  SkillBodies = {"a", "b"}
  FlaggedBodies = {"b"}
  MaxPolicyEdits = 1
  GateSlots = {"r", "q"}
  GateClients = {"v4"}
  Listener <- MCListener
  LoopbackHosts = {"localhost"}
  ReqRange = {1, 2, 3}
  WindowRange = {1, 2, 3}
  ReqDefault = 2
  WindowDefault = 2
  Settings <- MCSettings
  UnsetSetting <- MCUnset
  Malformed <- MCMalformed
  LinesRow <- MCLinesRow
  MaxGateClock = 3
  MaxClockMoves = 1
  MaxReloads = 1
  MaxEdits = 1
  Descendants = {"d"}
  MaxCapture = 2
  MaxU64 = 15
  FallbackPlanner = 1
  DefaultIterations = 1
  CheckSec = 1
  OverheadSec = 1
  WriteSec = 2
  StatusSec = 1
  DefaultSec = 1
  MaxTimeoutSec = 4
  PlannerTimeouts = {0, 7}
  Iterations = {0, 2}
  CheckCounts = {0, 1}
  MaxShimClock = 3
  MaxOperations = 1
INVARIANT ServicesTypeOK
INVARIANT AccountsHold
INVARIANT WorkIsBounded
 
INVARIANT DeadOwnerLeavesNothing
INVARIANT LogsInOrder
INVARIANT MemoryStoreHolds
INVARIANT StartsSafely
PROPERTY ReplacementsAreSafe
