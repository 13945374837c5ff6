\* The share list changes while the startup scan runs.
SPECIFICATION Spec
CONSTANTS
  s1 = s1
  s2 = s2
  Shares = {s1, s2}
  Legacy = legacy
  ShareLists <- TwoLists
  Names = {"photo"}
  Motion = {s1}
  Workers = {w1}
  JobCap = 1
  MaxMtime = 2
  MaxChanges = 0
  MaxFulls = 1
  Cancels = FALSE
  DbFaults = FALSE
INVARIANT IndexFollowsShares
\* The world may stand still after the last scan.
CHECK_DEADLOCK FALSE
