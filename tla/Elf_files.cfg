SPECIFICATION Spec
CONSTANTS
  FileImage <- Files
  ByteSize = 8
  Placement <- Places
CHECK_DEADLOCK FALSE
INVARIANTS
  TypeOK
  ReadAsLinked
  TurnedDownForCause
  CalledWhereTheyRun
