SPECIFICATION Spec
CONSTANTS
  Parts = { "logs" }
  LogRecords = { 1, 2 }
  MaxFaults = 1
  Definitions = { "a", "b" }
  MaxSteps = 2
  MaxRevision = 4
  MaxRetries = 1
  MaxBlocks = 2
  NServers = 2
  MaxCuts = 1
  Capacity = 2
  QueueSize = 2
  MaxEvents = 5
  MaxDrops = 1
  Prompts = { "p", "q" }
  Approvals = { "a" }
  MaxTracked = 2
  MaxCopies = 2
  AllowDirty = FALSE
  RunFiles = { "a", "b" }
  MaxEdits = 1
  MaxWrites = 2
  MaxStops = 1
  Suite <- EvaluationSuite
  Sessions = { "s", "t" }
  First = "s"
  Modes = { "plan", "build" }
  MaxRuns = 1
  MaxCrashes = 1
  Paths = { 1, 2 }
  Words = { "a", "b" }
  MaxText = 2
  MaxPatch = 2
  MaxOps = 1
  MaxErrors = 2
  MaxSegments = 2
  MaxCancels = 2
  Texts = { "a", "b" }
  Proposed <- Proposals
  Limit = 1
  MaxRecords = 4
  MaxLosses = 1
  AgentIds = { "a", "b" }
  AgentScopes = { "s", "t" }
  SourceFiles = { "f" }
  MaxTasks = 2
  MaxParallel = 1
  MaxDispatches = 1
  MaxFileChanges = 1
  Builtins <- BuiltinTools
  Late <- LateTools
  Extensions <- ExtensionTools
  Packages <- SkillPackages
  Offered <- ServerTools
  MaxRegistered = 8
  MaxOpened = 2
  Budget = 18
  Fixed = 1
  Required = 2
  KeepRecent = 3
  Recent = 3
  ToolBatches <- AnswerTools
  Recalls = { 2 }
  MaxGroups = 6
  MaxReloads = 1
  TrackedFiles = { "f" }
  MaxEvidence = 2
  MaxResults = 3
  MaxChanges = 2
CHECK_DEADLOCK FALSE
INVARIANTS LogsStayReadable
