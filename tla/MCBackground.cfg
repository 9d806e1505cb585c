SPECIFICATION BackgroundSpec
CHECK_DEADLOCK FALSE
CONSTANTS
  Jobs = {"j1", "j2"}
  MaxRetained = 1
  SharesBackend = FALSE
  MaxBoots = 2
  NoJob = "nojob"
  Chat = "chat"
  Owners = {"alice"}
  Dests = {"hookA"}
  OwnerOf <- MCOwnerOf
  OutboxEvents = {1}
  Targets <- MCTargets
  MaxGrant = 1
  Capacity = 1
  BatchSize = 2
  MaxAttempts = 2
  MaxReplays = 1
  AdminSlots = 0
  MaxOutboxBoots = 2
  Runs = {"r1"}
  Sessions = {"s1"}
  SessionOf <- MCSessionOf
  Goals = {"g1", "g2"}
  Watchers = {"w1"}
  MaxTurns = 2
  MaxTokens = 1
  MaxFailures = 1
  TurnTokens = 1
  CoolsDown = TRUE
  Lag = 1
  Suggestions = {"m1"}
  ChatSources = {"m1"}
  Batches = {"b1"}
  MaxQueue = 2
  MaxChatTurns = 1
  MaxCancels = 1
  MaxStarts = 1
  MaxFrame = 2
  MaxMcpCalls = 1
  MaxServerMessages = 1
  MaxCrashedHosts = 1
INVARIANT BackgroundTypeOK
INVARIANT AtMostOneLateTurn
INVARIANT BudgetsHold
 
PROPERTY RunsEnd
PROPERTY PendingSettles
PROPERTY RunEnds
PROPERTY EndedStaysEnded
 
