\* Two seconds of silence, a ring of six lists; the clock can reach 9, so one
\* pause can be longer than the whole ring from any index.
CONSTANTS
  Player = {p1, p2}
  HeartbeatInterval = 2
  MaxClientConnections = 2
  MaxTime = 9
SPECIFICATION Spec
INVARIANTS
  TypeOK
PROPERTIES
  KeepsTimers
