\* The default pool of one worker, scheduled fairly; rows that may fail to be written.
SPECIFICATION FairSpec
CONSTANTS
  Videos = {v1}
  Tiers = {r1, r2}
  Workers = {w1}
  QueueCap = 1
  MaxManagers = 1
  MaxMtime = 2
  MaxInflight = 1
  MaxOrphans = 0
  DiskFaults = TRUE
PROPERTIES
  ClaimEnds
  TasksSpec
\* Clients need not come, and the process may stay down.
CHECK_DEADLOCK FALSE
