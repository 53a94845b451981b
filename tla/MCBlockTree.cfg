SPECIFICATION Spec
CONSTANTS
  NumberOfSubNodes = 2
  BlockSize = 2
  MaxLevels = 4
  Descriptors = {d1, d2}
  Offsets <- MCOffsets
  VolumeSizes <- MCVolumeSizes
INVARIANTS
  OneOwner
PROPERTIES
  ImplementsBlockMap
  CallEnds
CHECK_DEADLOCK FALSE
