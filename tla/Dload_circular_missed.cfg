SPECIFICATION Spec
CONSTANTS
  File <- Files
  Name <- Names
  Disks <- OneCycle
  Faults <- NoFaults
  HandleBound = 3
CHECK_DEADLOCK FALSE
INVARIANTS
  NoCircularDependency
