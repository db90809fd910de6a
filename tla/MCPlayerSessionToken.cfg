CONSTANTS
  Request = {r1, r2}
  Uid = {u1}
  MaxClientConnections = 1
  MaxPlayerId = 1
  MaxMsgs = 2
  MaxLogins = 2
SPECIFICATION Spec
INVARIANTS
  NewestLoginHolds
