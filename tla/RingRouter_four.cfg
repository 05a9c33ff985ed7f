SPECIFICATION FairSpec
CONSTANTS
  N = 4
  CutLinks <- EvenCuts
  Traffic <- FourClusters
  Offerings <- AllOrNone
  Takings <- Halves
INVARIANTS TypeOK
PROPERTIES ImplementsChannels EveryPacketArrives
