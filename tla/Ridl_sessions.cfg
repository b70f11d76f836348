SPECIFICATION RidlSpec
CONSTANTS
  File <- Files
  Name <- Names
  Disks <- ForSessions
  Faults <- AllFaults
  HandleBound = 3
  ModuleName <- Files
  Address <- Cells
  Header <- Headers
  WithDLModules <- Images
  StackBound = 2
CHECK_DEADLOCK FALSE
INVARIANTS
  RidlTypeOK
  LinkedInOrder
  DebuggerSeesModules
  ExecutedIsInMemory
  StaleUnloadHarmless
  RecursionBounded
  CrashOnlyOnBaseImage
PROPERTIES
  BackToPrompt
