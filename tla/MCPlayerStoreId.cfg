CONSTANTS
  Saver = {"loop"}
  MaxPlayerId = 2
  MaxRows = 2
  MaxVer = 1
SPECIFICATION Spec
INVARIANTS
  IdIsFree
