SPECIFICATION MCSpec
CONSTANTS
  MaxCalls = 2
  MaxBatch = 2
  MaxResumes = 2
  MaxRuns = 2
  MaxCrashes = 1
  MaxFaults = 1
  Jobs <- MCJobs
  Mixes <- MCMixes
  Slots = 2
  MaxPending = 2
  GroupSlots = 1
  MaxCancels = 1
CHECK_DEADLOCK FALSE
INVARIANTS StartsApprovedOnce QuestionAnswerable LimitsRespected
PROPERTY EveryJobEnds
