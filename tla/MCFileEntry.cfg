SPECIFICATION Spec
CONSTANTS
  t1 = t1
  t2 = t2
  Threads = {t1, t2}
  Operations <- MCOperations
  DataSize = 2
  ReadSizes = {1, 2}
  Distances <- MCDistances
  NumberOfExtents = 2
  Roots = {FALSE, TRUE}
  SubFileEntries = 1
  MaxCalls = 3
INVARIANTS
  TypeOK
  RootDirectoryKept
  SubFileEntriesAnswered
  ExtentsAnswered
  FreedCompletely
PROPERTIES
  ImplementsCursor
  CallsEnd
CHECK_DEADLOCK FALSE
