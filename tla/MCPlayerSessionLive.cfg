\* One message per request keeps the behaviour graph small enough for fairness.
CONSTANTS
  Request = {r1, r2}
  Uid = {u1}
  MaxClientConnections = 1
  MaxPlayerId = 1
  MaxMsgs = 1
  MaxLogins = 1
SPECIFICATION FairSpec
PROPERTIES
  Answered
  SilenceEndsSessions
\* Once a panic has ended the timer goroutine, requests and ban may all wait for it.
CHECK_DEADLOCK FALSE
