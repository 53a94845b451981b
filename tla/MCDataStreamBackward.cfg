SPECIFICATION Spec
CONSTANTS
  NumberOfClusters = 6
  LastClusterNumber = 9
  ClusterBlockSize = 2
  FirstClusterOffset = 3
  TreeLimit = 15
  Tables <- MCTables
  FirstClusters <- MCFirstClusters
  Sizes <- MCSizes
INVARIANTS
  StreamFollowsChain
CHECK_DEADLOCK FALSE
