CONSTANTS
  Id = {i1}
  Saver = {"loop", "main"}
  MaxRows = 1
  MaxVer = 2
SPECIFICATION Spec
INVARIANTS
  ShutdownSavesAll
