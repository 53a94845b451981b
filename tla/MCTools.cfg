SPECIFICATION Spec
CONSTANTS
  Content <- MCContent
  Root <- MCRoot
  Upper <- MCUpper
  MaximumCached = 2
  Contexts = {1, 2}
  HostPaths <- MCHostPaths
  InfoPaths <- MCInfoPaths
  RootIdentifier = 10
  DigestBlocks = 2
  DokanMaxPath = 35
  MaxLost = 1
  Programs = {"fuse", "dokan", "info", "python"}
  Threads = {"owner", "other"}
  Owner = "owner"
  Scripts <- MCScripts
  NumberOfObjects = 3
  NumberOfSequences = 1
  NumberOfItems = 2
  MaxOpenings = 2
INVARIANTS
  PathResolved
  NothingDangles
  FileEntriesAccounted
  AnsweredByPath
  ListedCanBeOpened
  PrintedPathsLead
  VolumeOutlivesEntries
  HandleOwned
  UndisturbedAnswers
PROPERTIES
  ProgramsGetOn
CHECK_DEADLOCK FALSE
