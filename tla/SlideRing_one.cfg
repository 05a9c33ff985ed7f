SPECIFICATION FairSlideSpec
CONSTANTS
  N = 4
  CutLinks <- NoLinks
  Traffic <- ProgramTraffic
  Offerings <- Halves
  Receivings <- Halves
  Takings <- AllOrNone
  NrLanes = 2
  VInsnQueueDepth = 2
  ResultQueueDepth = 2
  Programs <- OneSlide
INVARIANTS PacketsUsedWhereTheyBelong
PROPERTIES EverySlideCompletes
