CONSTANTS
  g1 = g1
  Guilds = {g1}
  Occurrences <- Script
  MaxRetries = 1
  MaxFaults = 2
  Visitors = {c1}
SPECIFICATION FairSiteSpec
INVARIANTS
  InventoryTrue
  StatsTrue
  InstallsBackfilled
PROPERTY StatsShown
\* Once the script is played and all visitors show the row, nothing is left to do.
CHECK_DEADLOCK FALSE
