CONSTANTS
  Player = {p1, p2, p3}
  NoPlayer = none
  MemberNum = 2
  MaxGuildId = 2
  MaxBusy = 2
  MaxList = 1
  MaxAsks = 1
SPECIFICATION Spec
SYMMETRY Symmetry
CONSTRAINT UpToLateStore
CHECK_DEADLOCK FALSE
INVARIANTS
  TypeOK
  RowsAgree
  AuthorityIsLawful
PROPERTY
  OneGuildAtATime
