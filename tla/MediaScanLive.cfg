\* Two roots with a photo each, or the storage root alone; one worker, cancelled at any point.
SPECIFICATION FairSpec
CONSTANTS
  s1 = s1
  s2 = s2
  Shares = {s1, s2}
  Legacy = legacy
  ShareLists <- BothLists
  Names = {"photo"}
  Motion = {s1}
  Workers = {w1}
  JobCap = 1
  MaxMtime = 2
  MaxChanges = 0
  MaxFulls = 1
  Cancels = TRUE
  DbFaults = FALSE
INVARIANT FullScanExact
PROPERTIES
  ScanEnds
\* The world may stand still after the last scan.
CHECK_DEADLOCK FALSE
