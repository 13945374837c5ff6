\* A pool of two workers, two requests in flight, ffmpegs that outlive their server.
SPECIFICATION Spec
CONSTANTS
  Videos = {v1}
  Tiers = {r1, r2}
  Workers = {w1, w2}
  QueueCap = 1
  MaxManagers = 1
  MaxMtime = 2
  MaxInflight = 2
  MaxOrphans = 2
  DiskFaults = FALSE
INVARIANTS
  TypeOK
  ClaimsExclusive
  RunningIsOwned
  ServedComplete
SYMMETRY WorkerSymmetry
\* Clients need not come, and the process may stay down.
CHECK_DEADLOCK FALSE
