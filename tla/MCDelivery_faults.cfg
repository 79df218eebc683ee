CONSTANTS
  Events = {e1, e2}
  Workers = {w1}
  MaxRetries = 1
  BatchSize = 2
  RetryBatch = 2
  MaxFaults = 2
  FaultKinds = {"gateway", "worker", "scheduler", "crash", "panic", "expiry", "reply"}
SPECIFICATION FairSpec
INVARIANTS
  TypeOK
  PersistedBeforeQueued
  OneCopy
  DeadLetterEarned
  AttemptsBounded
  NothingVanishes
PROPERTIES
  ImplementsLedger
  SettledUnlessFaulted
\* Every event settled and every process idle: the finite input is used up.
CHECK_DEADLOCK FALSE
