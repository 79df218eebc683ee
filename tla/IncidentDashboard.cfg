CONSTANTS
  Events = {e1}
  Requests = {q1, q2}
  Local = {q1}
  Viewers = {v1}
  MaxRetries = 1
  MaxEntries = 2
  MaxFaults = 1
SPECIFICATION DashboardSpec
INVARIANTS
  OneActor
  ActedOnOnce
  LeavesOnPurpose
  AuditTruthful
  AttemptsPaidFor
  DashboardTypeOK
  ActsShown
\* Every event may be settled and every request answered.
CHECK_DEADLOCK FALSE
