SPECIFICATION FairSpec
CONSTANTS
  Dispatches = {d1, d2}
  MaxInterrupts = 1
  MaxOpens = 1
  CloseBusy = TRUE
  HasDeadline = FALSE
  None = None
CHECK_DEADLOCK FALSE
INVARIANTS FrameIsDurable
PROPERTIES CancelledRunEnds
