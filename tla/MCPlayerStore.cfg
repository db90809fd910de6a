CONSTANTS
  Saver = {"loop", "main"}
  MaxPlayerId = 2
  MaxRows = 3
  MaxVer = 1
SPECIFICATION Spec
INVARIANTS
  CounterCatchesUp
PROPERTIES
  SavedPlayerStays
