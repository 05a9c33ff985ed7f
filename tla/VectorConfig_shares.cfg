SPECIFICATION Spec
CONSTANTS
  NrClusters = 2
  NrLanes = 2
  VLENB = 16
  ELENB = 8
  VTypes <- MCTypes
  AVLs <- FittingAVLs
  Cuts = 1
INVARIANTS TypeOK SharesAreOwned LevelClustersAgree
