SPECIFICATION Spec
CONSTANTS
  File <- Files
  Name <- Names
  Disks <- OneDiamond
  Faults <- NoFaults
  HandleBound = 3
CHECK_DEADLOCK FALSE
INVARIANTS
  NeededInitializedFirst
