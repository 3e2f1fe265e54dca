\* Runs that are cancelled, that crash, that meet an exception, and that the
\* user resumes.
SPECIFICATION Spec
CONSTANTS
    Qualified = 2
    MaxRecoveries = 1
    Modes = {"build", "read"}
    Events = {"cancel", "exception", "prompt"}
    AdmissionKinds = {"approval"}
    HandlerKinds = {"ok", "change", "input"}
    BaseTurns = 2
    BaseIterations = 2
    BaseRepeats = 1
    PerTurn = 2
    Prints = {1}
    MaxBatch = 2
    MaxCalls = 2
    MaxEntries = 3
    MaxCrashes = 1
INVARIANTS CallsSettledWhenOver EffectsAreRecorded
PROPERTIES CancelledStartsNothing
