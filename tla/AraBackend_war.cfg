SPECIFICATION BSpec
CONSTANTS
  NrVInsn = 3
  NrLanes = 1
  VRegs = {0, 1, 2}
  VMASK = 0
  CntWrap = 8
  Requests <- ReaderRequests
  InsnQueueDepth <- OneDeep
  OutrunLanes = FALSE
INVARIANTS ReadersCovered
