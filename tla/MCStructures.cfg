SPECIFICATION Spec
CONSTANTS
  Narrow = 64
  Wide = 8192
  SectorSizes = {4, 8}
  MaximumClusterExponent = 2
  Fat12Limit = 5
  Fat16Limit = 7
  EntrySizeInRoot = 2
  NibbleBase = 2
  MaximumNumberOfClusters = 14
  ShortBase = 3
  ShortExtension = 1
  LongPart = 2
  MaximumLongParts = 3
  ExfatPart = 2
  MaximumExfatParts = 2
  StoredNames <- MCStoredNames
  Strings <- MCStrings
  Dates <- MCDates
  Volumes <- MCVolumes
  Decoded = {"tables", "entry", "date"}
INVARIANTS
  TableDecoded
  ReversedLeadsBack
  ClustersCounted
  NameKept
  DateShown
CHECK_DEADLOCK FALSE
