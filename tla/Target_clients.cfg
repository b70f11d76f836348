SPECIFICATION Spec
CONSTANTS
  PoolStart = 8
  PoolSize = 6
  Sizes <- OneToThree
  Aligns <- Aligned
  Addresses <- StartAndMiddle
  PacketBound = 9
  HeldBound = 3
  Nested = FALSE
CONSTRAINT StillIntact
INVARIANTS
  TypeOK
  ListTilesPool
  RoomIsListed
  LinksAreLive
PROPERTIES
  ImplementsPool
