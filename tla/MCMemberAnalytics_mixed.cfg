CONSTANTS
  m1 = m1
  c1 = c1
  Members = {m1}
  Channels = {c1}
  OtherGuild = FALSE
  Happenings <- MixedEvents
  MaxEvents = 3
  MaxFaults = 1
SPECIFICATION Spec
INVARIANTS
  EveryMarkerCounted
  OneCohort
  MarkersJustified
  StepsRecorded
PROPERTY FilledFromMarkers
\* Everything that happened may have been handled.
CHECK_DEADLOCK FALSE
