SPECIFICATION Spec
CONSTANTS
  Vlmax = 2
  SliceSize = 3
  Jobs <- AnyShort
INVARIANTS ResultIsScalarLoops
CHECK_DEADLOCK FALSE
