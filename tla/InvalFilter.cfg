SPECIFICATION Spec
CONSTANTS
  MaxTxns = 2
  LineBytes = 2
  NumSets = 4
  Bursts <- MCBursts
  NoBurst = NoBurst
INVARIANTS TypeOK WalkInsideHead NoLineSkipped
PROPERTY FullIsTransient
