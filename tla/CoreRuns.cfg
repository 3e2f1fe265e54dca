\* Runs with and without a plan that nothing cuts off: every answer of the
\* model, the tools and the user.
SPECIFICATION Spec
CONSTANTS
    Qualified = 2
    MaxRecoveries = 1
    Modes = {"build", "plan"}
    Events = {"approve", "reject", "feedback", "abandon"}
    AdmissionKinds = {"approval", "unavailable"}
    HandlerKinds = {"change", "passed", "checkFailed", "input", "submit", "finish", "rework"}
    BaseTurns = 3
    BaseIterations = 3
    BaseRepeats = 1
    PerTurn = 1
    Prints = {1}
    MaxBatch = 2
    MaxCalls = 3
    MaxEntries = 3
    MaxCrashes = 0
INVARIANTS TranscriptSound CompletedIsVerified PlansEndWithTheRun OneTurnOverBudget
