CONSTANTS
  c1 = c1
  c2 = c2
  a1 = a1
  a2 = a2
  Channels = {c1, c2}
  Messages <- MixedMessages
  History <- OldMessages
  From = 1
  To = 4
  PageSize = 1
  Concurrency = 1
  MaxRetries = 1
  MaxFaults = 1
SPECIFICATION Spec
INVARIANTS
  TypeOK
  CompletedMeansIndexed
  NeverOvercounted
  RebuildRepairs
PROPERTY JobSettles
\* The job may be completed and every message handled.
CHECK_DEADLOCK FALSE
