SPECIFICATION SearchSpec
CONSTANTS
  Volumes <- MCVolumes
  SearchedIn <- MCSearchedIn
  Tables <- MCTables
  NumberOfClusters = 4
  LastClusterNumber = 9
  EntriesPerCluster = 4
  FirstClusterOffset = 1
  RangeSize = 5
  Methods = {"chain", "range"}
INVARIANTS
  ListsFiles
  EntriesBelong
  EntryAsListed
PROPERTIES
  ReadsEnd
CHECK_DEADLOCK FALSE
