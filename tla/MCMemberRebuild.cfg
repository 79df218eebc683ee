CONSTANTS
  m1 = m1
  c1 = c1
  Members = {m1}
  Channels = {c1}
  OtherGuild = FALSE
  Happenings <- RebuiltEvents
  MaxEvents = 3
  MaxFaults = 1
  JoinedBefore <- JoinedOnDay8
  From = 1
  To = 30
  Together <- FewTogether
  MaxJobs = 1
SPECIFICATION RebuildSpec
INVARIANTS
  RebuildTypeOK
  NothingForgotten
PROPERTY RebuildExact
\* Everything that happened may have been handled, and the job done.
CHECK_DEADLOCK FALSE
