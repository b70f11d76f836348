SPECIFICATION Spec
CONSTANTS
  PoolStart = 8
  PoolSize = 6
  Sizes <- OneAndTwo
  Aligns <- Aligned
  Addresses <- NoAddress
  PacketBound = 16
  HeldBound = 4
  Nested = TRUE
INVARIANT HeldApart
CHECK_DEADLOCK FALSE
