SPECIFICATION BSpec
CONSTANTS
  NrVInsn = 3
  NrLanes = 1
  VRegs = {0, 1}
  VMASK = 0
  CntWrap = 8
  Requests <- BackendRequests
  InsnQueueDepth <- OneDeep
  OutrunLanes = FALSE
INVARIANTS BTypeOK AgeIsOrder HazardsPointBack WritersCovered
PROPERTIES ScalarAnswerIsOwn MemoryAnswerIsOwn
