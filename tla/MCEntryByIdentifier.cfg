SPECIFICATION SearchSpec
CONSTANTS
  Volumes <- MCVolumes
  SearchedIn <- MCSearchedIn
  Tables <- MCTables
  NumberOfClusters = 4
  LastClusterNumber = 9
  EntriesPerCluster = 4
  FirstClusterOffset = 4
  RangeSize = 5
  Methods = {"chain"}
INVARIANTS
  ListedFileFound
CHECK_DEADLOCK FALSE
