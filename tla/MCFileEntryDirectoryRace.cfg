SPECIFICATION Spec
CONSTANTS
  t1 = t1
  t2 = t2
  Threads = {t1, t2}
  Operations <- MCDirectoryOperations
  DataSize = 2
  ReadSizes = {1, 2}
  Distances <- MCDistances
  NumberOfExtents = 2
  Roots = {FALSE}
  SubFileEntries = 1
  MaxCalls = 2
INVARIANTS
  SubFileEntriesAlwaysAnswered
CHECK_DEADLOCK FALSE
