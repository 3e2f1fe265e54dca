\* A run that may not go on, is told to, and crashes before its first commit.
SPECIFICATION Spec
CONSTANTS
    Qualified = 2
    MaxRecoveries = 1
    Modes = {"build"}
    Events = {}
    AdmissionKinds = {"unavailable"}
    HandlerKinds = {"ok"}
    BaseTurns = 1
    BaseIterations = 2
    BaseRepeats = 1
    PerTurn = 1
    Prints = {1}
    MaxBatch = 1
    MaxCalls = 1
    MaxEntries = 3
    MaxCrashes = 1
INVARIANT AnsweredOnce
