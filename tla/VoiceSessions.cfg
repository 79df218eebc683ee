CONSTANTS
  Channels = {c1, c2}
  PerDay = 2
  MaxTime = 5
  MaxMoves = 4
  MaxFaults = 2
SPECIFICATION Spec
INVARIANTS
  TypeOK
  SessionsTrue
  SecondsExact
  OrderedOnce
\* The member may have made all its moves.
CHECK_DEADLOCK FALSE
