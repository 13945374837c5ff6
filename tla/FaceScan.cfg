\* Two photos, one replaced; three reloads, a merge, a crash and a failing statement.
SPECIFICATION Spec
CONSTANTS
  p1 = p1
  p2 = p2
  h1 = h1
  h2 = h2
  h3 = h3
  anna = anna
  ben = ben
  Paths = {p1, p2}
  Hashes = {h1, h2, h3}
  Who = {anna, ben}
  Content <- Album
  Shows <- Cast
  DimsOf <- Dimensions
  Callers = {c1}
  MaxMtime = 2
  MaxChanges = 1
  MaxTriggers = 2
  MaxMerges = 1
  MaxReloads = 3
  MaxCrashes = 1
  MaxFaults = 1
INVARIANTS
  TypeOK
  OneLoop
  SkippedAreRecognised
  PersonsAreIndividuals
  ClustersAddUp
  HalfResetIsRepeated
  CoverIsOwn
CONSTRAINT TwoEvents
\* Clients need not come.
CHECK_DEADLOCK FALSE
