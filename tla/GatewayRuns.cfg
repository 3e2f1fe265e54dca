SPECIFICATION Spec
CONSTANTS
  Dispatches = {d1, d2}
  MaxInterrupts = 2
  MaxOpens = 2
  CloseBusy = FALSE
  HasDeadline = TRUE
  None = None
SYMMETRY Symmetry
CHECK_DEADLOCK FALSE
INVARIANTS OneCore CancelStopsCore NothingLeftBehind GatewayOrder
