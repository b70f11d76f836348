CONSTANTS
  Images <- AllFiles
  Addresses = {4096, 8192, 36864}
  HostOffset = 0
SPECIFICATION Spec
INVARIANTS
  TypeOK
  MoveWithSegment
  EveryEntryOnce
  ReachesTarget
  PairsCombine
CHECK_DEADLOCK FALSE
