SPECIFICATION FairSpec
CONSTANTS
  NrVInsn = 3
  NrLanes = 2
  VRegs = {0, 1}
  VMASK = 0
  CntWrap = 8
  Requests <- LaneRequests
  InsnQueueDepth <- OneDeep
  OutrunLanes = FALSE
INVARIANTS QueuesNeverOverflow NothingForgotten CountersExact
PROPERTY Progress
