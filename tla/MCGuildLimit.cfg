CONSTANTS
  Player = {p1, p2, p3, p4}
  NoPlayer = none
  MemberNum = 3
  MaxGuildId = 1
  MaxBusy = 2
  MaxList = 2
  MaxAsks = 2
SPECIFICATION Spec
SYMMETRY Symmetry
CONSTRAINT UpToLateStore
CHECK_DEADLOCK FALSE
INVARIANT
  MembersWithinLimit
