CONSTANTS
  Requesters = {r1, r2}
  JobTasks = {r1, r2}
  MaxLimit = 2
  MaxAttempts = 2
  StreakFactor = 2
  Delays = {1}
SPECIFICATION PatientSpec
PROPERTY RetriesGoOn
\* Every requester may end up waiting for a notification that never comes.
CHECK_DEADLOCK FALSE
