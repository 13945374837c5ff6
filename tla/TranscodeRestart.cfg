\* The server is stopped and started inside one process.
SPECIFICATION Spec
CONSTANTS
  Videos = {v1}
  Tiers = {r1}
  Workers = {w1}
  QueueCap = 1
  MaxManagers = 2
  MaxMtime = 2
  MaxInflight = 1
  MaxOrphans = 0
  DiskFaults = FALSE
INVARIANT OneTaskPerKey
\* Clients need not come, and the process may stay down.
CHECK_DEADLOCK FALSE
