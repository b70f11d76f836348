SPECIFICATION Spec
CONSTANTS
  File <- Files
  Name <- Names
  Disks <- OneChain
  Faults <- AllFaults
  HandleBound = 3
CHECK_DEADLOCK FALSE
INVARIANTS
  HandleIsUsable
