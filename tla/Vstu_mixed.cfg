SPECIFICATION FairSpec
CONSTANTS
  Depth = 2
  WordBytes = 4
  AxiBytes = 2
  LenWrap = 4
  Stores <- MixedStores
  InFlight = 1
  Elsewhere = TRUE
  MaxOwed = 3
  Numbers = 5
INVARIANTS TypeOK BeatCarriesOwnBytes
PROPERTIES StoresComplete
