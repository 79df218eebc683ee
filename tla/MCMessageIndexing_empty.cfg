CONSTANTS
  c1 = c1
  c2 = c2
  a1 = a1
  a2 = a2
  Channels = {}
  Messages = {}
  History = {}
  From = 1
  To = 4
  PageSize = 1
  Concurrency = 1
  MaxRetries = 1
  MaxFaults = 0
SPECIFICATION Spec
PROPERTY JobSettles
\* The worker may have stopped.
CHECK_DEADLOCK FALSE
