SPECIFICATION Spec
CONSTANTS
  RunIds = {r1, r2}
  Requests = {q1, q2}
  Bodies = {b1}
  MaxNew = 1
  MaxRev = 3
  MaxSession = 3
  MaxFaults = 1
  NoRun = NoRun
  NoMsg = NoMsg
  NoReq = NoReq
CHECK_DEADLOCK FALSE
SYMMETRY Symmetry
INVARIANTS SingleActive HistoryKept
PROPERTIES TerminalFrozen ImplementsLedger
