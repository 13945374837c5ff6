\* A photo and its companion in one share, two workers, errors and cancellation.
SPECIFICATION Spec
CONSTANTS
  s1 = s1
  s2 = s2
  Shares = {s1}
  Legacy = legacy
  ShareLists <- OneList
  Names = {"photo", "movie"}
  Motion = {s1}
  Workers = {w1, w2}
  JobCap = 1
  MaxMtime = 2
  MaxChanges = 2
  MaxFulls = 1
  Cancels = TRUE
  DbFaults = TRUE
INVARIANTS
  TypeOK
  FullScanExact
  NeverBehind
PROPERTIES
  KeepsSteadyRows
SYMMETRY WorkerSymmetry
\* The world may stand still after the last scan.
CHECK_DEADLOCK FALSE
