\* A full scan runs between the two steps of the startup scan.
SPECIFICATION Spec
CONSTANTS
  s1 = s1
  s2 = s2
  Shares = {s1, s2}
  Legacy = legacy
  ShareLists <- OneList
  Names = {"photo"}
  Motion = {s1}
  Workers = {w1}
  JobCap = 1
  MaxMtime = 2
  MaxChanges = 2
  MaxFulls = 1
  Cancels = FALSE
  DbFaults = FALSE
INVARIANT ScanFindsAll
\* The world may stand still after the last scan.
CHECK_DEADLOCK FALSE
