SPECIFICATION Spec
CONSTANTS
  Vlmax = 5
  SliceSize = 3
  Jobs <- GoodJobs
INVARIANTS ResultIsScalarLoops LoadsInsideMatrix
PROPERTIES KernelEnds
CHECK_DEADLOCK FALSE
