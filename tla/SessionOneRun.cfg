SPECIFICATION FairSpec
CONSTANTS
  RunIds = {r1}
  Requests = {q1}
  Bodies = {b1, b2}
  MaxNew = 1
  MaxRev = 4
  MaxSession = 1
  MaxFaults = 1
  NoRun = NoRun
  NoMsg = NoMsg
  NoReq = NoReq
CHECK_DEADLOCK FALSE
INVARIANTS FilesConsistent RetrySafe SessionInvariant
PROPERTIES RunsOnlyExtend RunsRecover
