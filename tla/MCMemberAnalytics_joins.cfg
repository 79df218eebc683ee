CONSTANTS
  m1 = m1
  c1 = c1
  Members = {m1}
  Channels = {c1}
  OtherGuild = FALSE
  Happenings <- Joins
  MaxEvents = 3
  MaxFaults = 0
SPECIFICATION Spec
INVARIANT JoinsCounted
\* Everything that happened may have been handled.
CHECK_DEADLOCK FALSE
