SPECIFICATION Spec
CONSTANTS
  Handle <- Handles
  NoModule = NoModule
  Requested <- MixedRequests
  DsbtSize <- RoomyTables
INVARIANTS
  TypeOK
  BelowFirstAvailOccupied
  SlotIsOwn
  RequestsKept
  SlotsAreModulesInMemory
  TablesComplete
PROPERTIES
  SlotNeverTakenOver
