SPECIFICATION OneKindSpec
CONSTANTS
  c1 = c1
  c2 = c2
  c3 = c3
  Call = {c1, c2, c3}
  Request <- Submitted
  NoId = NoId
  None = None
  NoMsg = NoMsg
  NoFile = NoFile
  SegMax = 2
  MaxSegments = 4
  MaxDisk = 5
  MaxPending = 2
  MaxReceipts = 1
  Capacity = 2
  GroupMax = 2
  MaxFaults = 2
CHECK_DEADLOCK FALSE
INVARIANTS NothingForgotten KeyedOnce
PROPERTIES ImplementsQueue
