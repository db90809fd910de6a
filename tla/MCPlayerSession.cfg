CONSTANTS
  Request = {r1, r2}
  Uid = {u1}
  MaxClientConnections = 1
  MaxPlayerId = 2
  MaxMsgs = 2
  MaxLogins = 1
SPECIFICATION Spec
INVARIANTS
  TypeOK
  OnlineHasTimer
  LockHolds
  NoLockLeftBehind
PROPERTIES
  UidKeepsPlayer
\* Once a panic has ended the timer goroutine, requests and ban may all wait for it.
CHECK_DEADLOCK FALSE
