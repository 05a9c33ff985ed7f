SPECIFICATION FairSpec
CONSTANTS
  Trackers = 8
  FifoDepth = 8
  Live = 4
  Programs <- Orderly
INVARIANTS TypeOK DoneWithTheLastAnswer CutByItsOwnLength
PROPERTIES EveryStoreIsAnswered
