SPECIFICATION Spec
CONSTANTS
  t1 = t1
  t2 = t2
  Threads = {t1, t2}
  Operations <- MCAllOperations
  CallerHandles = {c1}
  LibraryHandles = {l1, l2}
  Disciplines = {FALSE, TRUE}
  MaxCalls = 4
INVARIANTS
  TypeOK
  HandlesReturned
  ClosedIsEmpty
  OpenSucceeds
  SerialRootComplete
CHECK_DEADLOCK FALSE
