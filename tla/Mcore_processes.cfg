SPECIFICATION Spec
CONSTANTS
  a = a
  b = b
  Process <- Two
  Nobody = Nobody
  File <- Files
  Target <- CoreNumbers
  CoreArgs <- CoresGiven
  Core <- Cores
CHECK_DEADLOCK FALSE
INVARIANTS
  TypeOK
  BootedImageIsWhole
  StatusTellsWhatRuns
PROPERTIES
  WrittenInReset
  EveryProcessEnds
