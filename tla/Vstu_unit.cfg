SPECIFICATION Spec
CONSTANTS
  Depth = 4
  WordBytes = 4
  AxiBytes = 2
  LenWrap = 4
  Stores <- UnitStores
  InFlight = 3
  Elsewhere = FALSE
  MaxOwed = 4
  Numbers = 8
INVARIANTS BeatCarriesOwnBytes
PROPERTIES ImplementsStoreQueue
