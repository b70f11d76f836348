SPECIFICATION RidlSpec
CONSTANTS
  File <- Files
  Name <- Names
  Disks <- OneChain
  Faults <- NoFaults
  HandleBound = 4
  ModuleName <- Files
  Address <- Cells
  Header <- Headers
  WithDLModules <- Images
  StackBound = 2
CHECK_DEADLOCK FALSE
INVARIANTS
  MirrorIsCopy
