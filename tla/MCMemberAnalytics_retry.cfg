CONSTANTS
  m1 = m1
  c1 = c1
  Members = {m1}
  Channels = {c1}
  OtherGuild = TRUE
  Happenings <- Messages
  MaxEvents = 3
  MaxFaults = 1
SPECIFICATION Spec
INVARIANT RetriesSafe
\* Everything that happened may have been handled.
CHECK_DEADLOCK FALSE
