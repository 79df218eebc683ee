CONSTANTS
  Requesters = {r1, r2, r3}
  JobTasks = {r1, r2}
  MaxLimit = 2
  MaxAttempts = 1
  StreakFactor = 2
  Delays = {1, 2}
SPECIFICATION FairSpec
INVARIANTS
  TypeOK
  PermitsAccounted
  RetryAfterRespected
PROPERTIES
  WokenByOthers
\* Every requester may end up waiting for a notification that never comes.
CHECK_DEADLOCK FALSE
