SPECIFICATION Spec
CONSTANTS
  File <- Files
  Name <- Names
  Disks <- EveryDisk
  Faults <- NoFaults
  HandleBound = 3
CHECK_DEADLOCK FALSE
INVARIANTS
  UseCountExact
  HandleIsUsable
  ForestInitializedFirst
  AllReleased
PROPERTIES
  CircularOnlyIfLoading
  ImplementsStore
