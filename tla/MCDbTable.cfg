CONSTANTS
  Id = {i1, i2}
  Saver = {"loop", "main"}
  MaxRows = 2
  MaxVer = 1
SPECIFICATION FairSpec
INVARIANTS
  TypeOK
  CleanRowsAreSaved
  RemovedRowsGo
PROPERTIES
  ChangesAreSaved
